---- MODULE Spec2Model ----
(***************************************************************************)
(* A model of spectrometer/processor/record_processor.py: RecordProcessor, *)
(* the record normalisation, identity resolution and recomputation         *)
(* pipeline.                                                               *)
(*                                                                         *)
(* Python strings that the code takes apart (emails, domains, module       *)
(* names, store keys) are sequences of one-character strings, so that      *)
(* partition, split, join and find are computed and not assumed.  Company  *)
(* names, display names and release names are only compared, and are plain *)
(* strings.  Python's None is Null for a plain string, <<>> for a          *)
(* character sequence and 0 for a sequence number.                         *)
(***************************************************************************)
EXTENDS Integers, Sequences, FiniteSets, TLC

VARIABLES
    domains_index,  \* self.domains_index: domain suffix -> company name
    releases,       \* self.releases: list of [release_name, end_date]
    modules,        \* self.modules / self.alias_module_map (NoRegistry = None)
    users,          \* the user documents of the runtime storage, by key
    user_count,     \* the storage's user sequence counter
    records,        \* the records of the runtime storage, in storage order
    hash_order,     \* the iteration order of this process's string sets
    call,           \* the last operation and its arguments
    result,         \* what the last operation returned or yielded
    ingested,       \* how many raw events process has been given
    pc,             \* "call" before a pure function is applied, "ret" after
    time            \* int(time.time()): the clock, in seconds

vars == <<domains_index, releases, modules, users, user_count, records,
          hash_order, call, result, ingested, pc, time>>

(***************************************************************************)
(* Python values                                                           *)
(***************************************************************************)
Null == "<null>"

Truthy(s) == s /= Null /\ s /= ""

\* a or b, for plain strings
OrStr(a, b) == IF Truthy(a) THEN a ELSE b

\* a or b, for character sequences
OrSeq(a, b) == IF a /= <<>> THEN a ELSE b

\* {} as a dict, and a storage that holds nothing
EmptyMap == [k \in {} |-> Null]

\* the sequences over S of length 1..n
SeqsUpTo(S, n) == UNION {[1..k -> S] : k \in 1..n}

Max(S) == CHOOSE x \in S : \A y \in S : y <= x

Min(S) == CHOOSE x \in S : \A y \in S : x <= y

\* s.find(c) for a single character c, 1-based; 0 when c is not in s
FirstIndex(s, c) ==
    IF \E i \in 1..Len(s) : s[i] = c
    THEN Min({i \in 1..Len(s) : s[i] = c})
    ELSE 0

\* email.partition('@')
partition(s, sep) ==
    LET p == FirstIndex(s, sep)
    IN  IF p = 0
        THEN [name |-> s, at |-> <<>>, domain |-> <<>>]
        ELSE [name |-> SubSeq(s, 1, p - 1), at |-> <<sep>>,
              domain |-> SubSeq(s, p + 1, Len(s))]

RECURSIVE split(_, _)
\* domain.split('.')
split(s, sep) ==
    LET p == FirstIndex(s, sep)
    IN  IF p = 0
        THEN <<s>>
        ELSE <<SubSeq(s, 1, p - 1)>> \o split(SubSeq(s, p + 1, Len(s)), sep)

RECURSIVE join(_, _)
\* '.'.join(parts)
join(parts, sep) ==
    IF Len(parts) = 0 THEN <<>>
    ELSE IF Len(parts) = 1 THEN parts[1]
    ELSE parts[1] \o <<sep>> \o join(Tail(parts), sep)

\* s.find(sub) >= 0
Contains(s, sub) ==
    \E i \in 1..(Len(s) - Len(sub) + 1) : SubSeq(s, i, i + Len(sub) - 1) = sub

(***************************************************************************)
(* Bounds of the model                                                     *)
(***************************************************************************)
MaxIntervals == 2

MaxReleases == 3

MaxEmailLen == 7

MaxRepos == 3

MaxUsers == 2

\* raw events given to process in SpecProcess
MaxEvents == 2

\* raw events ingested in SpecUpdate
MaxStored == 4

(***************************************************************************)
(* _find_company                                                           *)
(***************************************************************************)
RECURSIVE find_company_from(_, _, _)
find_company_from(companies, date, i) ==
    IF i > Len(companies)
    THEN companies[Len(companies)].company_name
    ELSE IF date < companies[i].end_date
         THEN companies[i].company_name
         ELSE find_company_from(companies, date, i + 1)

\* the scan with the comparison weakened to <=
find_company_le(companies, date) ==
    IF \E i \in 1..Len(companies) : date <= companies[i].end_date
    THEN companies[Min({i \in 1..Len(companies) :
                            date <= companies[i].end_date})].company_name
    ELSE companies[Len(companies)].company_name

_find_company(companies, date) == find_company_from(companies, date, 1)

(***************************************************************************)
(* _get_company_by_email                                                   *)
(***************************************************************************)
RECURSIVE suffix_scan(_, _, _, _)
\* for i in range(i, stop, -1): the first suffix of i labels that is a key
suffix_scan(index, parts, i, stop) ==
    IF i <= stop
    THEN Null
    ELSE LET m == join(SubSeq(parts, Len(parts) - i + 1, Len(parts)), ".")
         IN  IF m \in DOMAIN index
             THEN index[m]
             ELSE suffix_scan(index, parts, i - 1, stop)

\* the scan run down to a single label: range(len(parts), 0, -1)
get_company_by_email_one_label(index, email) ==
    IF email = <<>>
    THEN Null
    ELSE LET domain == partition(email, "@").domain
         IN  IF domain /= <<>>
             THEN suffix_scan(index, split(domain, "."),
                              Len(split(domain, ".")), 0)
             ELSE Null

_get_company_by_email(index, email) ==
    IF email = <<>>
    THEN Null
    ELSE LET domain == partition(email, "@").domain
         IN  IF domain /= <<>>
             THEN suffix_scan(index, split(domain, "."),
                              Len(split(domain, ".")), 1)
             ELSE Null

(***************************************************************************)
(* _get_release                                                            *)
(***************************************************************************)
RECURSIVE bisect_loop(_, _, _, _)
\* bisect.bisect (bisect_right): 0-based insertion position of x in a
bisect_loop(a, x, lo, hi) ==
    IF lo < hi
    THEN LET mid == (lo + hi) \div 2
         IN  IF x < a[mid + 1]
             THEN bisect_loop(a, x, lo, mid)
             ELSE bisect_loop(a, x, mid + 1, hi)
    ELSE lo

RECURSIVE bisect_left_loop(_, _, _, _)
\* bisect.bisect_left: the position before the entries equal to x
bisect_left_loop(a, x, lo, hi) ==
    IF lo < hi
    THEN LET mid == (lo + hi) \div 2
         IN  IF a[mid + 1] < x
             THEN bisect_left_loop(a, x, mid + 1, hi)
             ELSE bisect_left_loop(a, x, lo, mid)
    ELSE lo

bisect(a, x) == bisect_loop(a, x, 0, Len(a))

\* self.releases_dates
releases_dates(rels) == [i \in 1..Len(rels) |-> rels[i].end_date]

\* _get_release with bisect_left in place of bisect
get_release_left(rels, timestamp) ==
    LET release_index == bisect_left_loop(releases_dates(rels), timestamp,
                                          0, Len(rels))
    IN  IF release_index >= Len(rels)
        THEN rels[Len(rels)].release_name
        ELSE rels[release_index + 1].release_name

\* rels[0] of an empty list raises: the model has no value for it
_get_release(rels, timestamp) ==
    LET release_index == bisect(releases_dates(rels), timestamp)
    IN  IF release_index >= Len(rels)
        THEN rels[(Len(rels) - 1) + 1].release_name
        ELSE rels[release_index + 1].release_name

(***************************************************************************)
(* _get_modules                                                            *)
(***************************************************************************)
\* self.modules = None
NoRegistry == [built |-> FALSE, modules |-> {}, alias_module_map |-> EmptyMap]

\* str.lower(), character by character
lower(s) ==
    [i \in 1..Len(s) |->
        IF s[i] = "A" THEN "a" ELSE IF s[i] = "B" THEN "b"
        ELSE IF s[i] = "C" THEN "c" ELSE IF s[i] = "U" THEN "u" ELSE s[i]]

\* One pass of the loop "for m in self.modules" (lines 62-68) and the add of
\* lines 69-70, for one name.  A Python set is iterated in hash order, so
\* any entry related to the name may be the first one met; the loop breaks
\* at that entry.  The set of the outcomes [modules, add].
add_module_name(mods, add, module_name) ==
    LET related == {m \in mods : \/ Contains(module_name, m)
                                 \/ Contains(m, module_name)}
        added(ms, a) == IF a THEN ms \cup {module_name} ELSE ms
    IN  IF related = {}
        THEN {[modules |-> added(mods, add), add |-> add]}
        ELSE {IF Contains(module_name, m)
              THEN [modules |-> mods, add |-> FALSE]
              ELSE [modules |-> added(mods \ {m}, add), add |-> add] :
              m \in related}

RECURSIVE add_module_names(_, _, _)
\* for module_name in ([module] + module_aliases): the possible registries
add_module_names(mods, add, names) ==
    IF names = <<>>
    THEN {mods}
    ELSE UNION {add_module_names(o.modules, o.add, Tail(names)) :
                    o \in add_module_name(mods, add, Head(names))}

RECURSIVE load_modules(_, _)
\* for repo in utils.load_repos(...): the possible registries
load_modules(mods, repos) ==
    IF repos = <<>>
    THEN {mods}
    ELSE UNION {load_modules(ms, Tail(repos)) :
                    ms \in add_module_names(mods, TRUE,
                               <<lower(Head(repos).module)>>
                                   \o Head(repos).aliases)}

RECURSIVE alias_map(_, _)
\* self.alias_module_map[alias] = module, a later repo overwriting
alias_map(map, repos) ==
    IF repos = <<>>
    THEN map
    ELSE LET repo == Head(repos)
             names == {repo.aliases[i] : i \in 1..Len(repo.aliases)}
         IN  alias_map([a \in DOMAIN map \cup names |->
                            IF a \in names THEN lower(repo.module)
                            ELSE map[a]],
                       Tail(repos))

\* the registries _get_modules may build from the repository list
_get_modules(registry, repos) ==
    IF registry.built
    THEN {registry}
    ELSE {[built |-> TRUE, modules |-> ms,
           alias_module_map |-> alias_map(EmptyMap, repos)] :
          ms \in load_modules({}, repos)}

(***************************************************************************)
(* User documents and the runtime storage's keyed user access              *)
(***************************************************************************)
\* {} in place of a user: what "load_user(...) or {}" is when nothing is found
NoUser ==
    [seq |-> 0, user_id |-> <<>>, ldap_id |-> <<>>, user_name |-> Null,
     companies |-> <<>>, company_name |-> Null, emails |-> <<>>,
     has_core |-> FALSE, core |-> <<>>]

\* 'user:%s' % seq: the decimal digits of a sequence number
SeqKey(n) ==
    <<<<"0", "1", "2", "3", "4", "5", "6", "7", "8", "9">>[(n % 10) + 1]>>

\* The element of a one-element set.  Only({e(x) : x \in {v}}) is e(v) with
\* v worked out once, as a local variable of the code holds a value.
Only(S) == CHOOSE x \in S : TRUE

\* the elements of a sequence
Range(q) == {q[i] : i \in 1..Len(q)}

\* list(a_set): the members in this process's iteration order
ListOf(S, order) == SelectSeq(order, LAMBDA x : x \in S)

\* utils.load_user: the document under the key, nothing for an empty key
load_user(store, key) ==
    IF key /= <<>> /\ key \in DOMAIN store THEN store[key] ELSE NoUser

\* the keys a document is kept under: its seq, user_id, ldap_id and emails
user_keys(user) ==
    {SeqKey(user.seq)} \cup ({user.user_id, user.ldap_id} \ {<<>>})
        \cup Range(user.emails)

\* utils.store_user: stamp a seq on first persist, write under every key
store_user(st, user) ==
    Only({Only({[user |-> stamped,
                 st |-> [users |-> [k \in DOMAIN st.users \cup keys |->
                                        IF k \in keys THEN stamped
                                        ELSE st.users[k]],
                         user_count |-> IF user.seq = 0
                                        THEN st.user_count + 1
                                        ELSE st.user_count]] :
                keys \in {user_keys(stamped)}}) :
          stamped \in {IF user.seq = 0
                       THEN [user EXCEPT !.seq = st.user_count + 1]
                       ELSE user}})

\* utils.delete_user: remove the document's keys
delete_user(st, user) ==
    [st EXCEPT !.users = [k \in DOMAIN st.users \ user_keys(user) |->
                              st.users[k]]]

RECURSIVE all_users_from(_, _)
all_users_from(st, n) ==
    IF n > st.user_count
    THEN <<>>
    ELSE (IF SeqKey(n) \in DOMAIN st.users
          THEN <<st.users[SeqKey(n)]>> ELSE <<>>)
             \o all_users_from(st, n + 1)

\* runtime_storage_inst.get_all_users(): every stored user once, by seq
get_all_users(st) == all_users_from(st, 1)

(***************************************************************************)
(* _create_user, _update_user_affiliation, _merge_user_profiles,           *)
(* update_user                                                             *)
(***************************************************************************)
_get_independent == "*independent"

_create_user(ldap_id, email, user_name) ==
    LET company == OrStr(_get_company_by_email(domains_index, email),
                         _get_independent)
    IN  [seq |-> 0,
         user_id |-> OrSeq(ldap_id, email),
         ldap_id |-> ldap_id,
         user_name |-> OrStr(user_name, ""),
         companies |-> <<[company_name |-> company, end_date |-> 0]>>,
         company_name |-> Null,
         emails |-> IF email /= <<>> THEN <<email>> ELSE <<>>,
         has_core |-> FALSE,
         core |-> <<>>]

\* _update_user_affiliation without the '*independent' test of line 122: a
\* single interval takes the first resolved company whatever it named
update_user_affiliation_any_company(user) ==
    LET hits == {i \in 1..Len(user.emails) :
                     Truthy(_get_company_by_email(domains_index,
                                                  user.emails[i]))}
    IN  IF Len(user.companies) = 1 /\ hits /= {}
        THEN [user EXCEPT !.companies[1].company_name =
                              _get_company_by_email(domains_index,
                                                    user.emails[Min(hits)])]
        ELSE user

RECURSIVE affiliation_from(_, _)
\* for email in user.get('emails'): the first email that resolves rewrites
\* a single '*independent' interval, and the loop stops
affiliation_from(user, i) ==
    IF i > Len(user.emails)
    THEN user
    ELSE Only({IF /\ Truthy(company_name)
                  /\ Len(user.companies) = 1
                  /\ user.companies[1].company_name = _get_independent
               THEN [user EXCEPT !.companies[1].company_name = company_name]
               ELSE affiliation_from(user, i + 1) :
               company_name \in {_get_company_by_email(domains_index,
                                                       user.emails[i])}})

_update_user_affiliation(user) == affiliation_from(user, 1)

\* the key-by-key choice with the event's own candidate taken first
merged_fields_fresh_first(user_a, user_b, user_c) ==
    [seq |-> IF user_c.seq /= 0 THEN user_c.seq
             ELSE IF user_a.seq /= 0 THEN user_a.seq ELSE user_b.seq,
     user_name |-> OrStr(user_c.user_name,
                         OrStr(user_a.user_name, user_b.user_name)),
     user_id |-> OrSeq(user_c.user_id, OrSeq(user_a.user_id, user_b.user_id)),
     ldap_id |-> OrSeq(user_c.ldap_id, OrSeq(user_a.ldap_id, user_b.ldap_id)),
     companies |-> OrSeq(user_c.companies,
                         OrSeq(user_a.companies, user_b.companies))]

\* user_a.get(key) or user_b.get(key) or user_c.get(key), key by key
merged_fields(user_a, user_b, user_c) ==
    [seq |-> IF user_a.seq /= 0 THEN user_a.seq
             ELSE IF user_b.seq /= 0 THEN user_b.seq ELSE user_c.seq,
     user_name |-> OrStr(user_a.user_name,
                         OrStr(user_b.user_name, user_c.user_name)),
     user_id |-> OrSeq(user_a.user_id, OrSeq(user_b.user_id, user_c.user_id)),
     ldap_id |-> OrSeq(user_a.ldap_id, OrSeq(user_b.ldap_id, user_c.ldap_id)),
     companies |-> OrSeq(user_a.companies,
                         OrSeq(user_b.companies, user_c.companies))]

\* the merged_user of lines 134-149, before the affiliation refresh
merged_user(f, user_a, user_b, user_c) ==
    [seq |-> f.seq,
     user_id |-> IF f.ldap_id /= <<>> /\ f.user_id /= f.ldap_id
                 THEN f.ldap_id ELSE f.user_id,
     ldap_id |-> f.ldap_id,
     user_name |-> f.user_name,
     companies |-> f.companies,
     company_name |-> Null,
     emails |-> ListOf(Range(user_a.emails) \cup Range(user_b.emails)
                           \cup Range(user_c.emails), hash_order.strings),
     has_core |-> TRUE,
     core |-> ListOf(Range(user_a.core) \cup Range(user_b.core)
                         \cup Range(user_c.core), hash_order.pairs)]

\* _merge_user_profiles without the delete_user of lines 152-154
merge_without_delete(st, user_a, user_b, user_c) ==
    Only({[user |-> user, st |-> st] :
          user \in {_update_user_affiliation(
                        merged_user(merged_fields(user_a, user_b, user_c),
                                    user_a, user_b, user_c))}})

\* [user, st]: the merged user and the storage after the delete of user_b
_merge_user_profiles(st, user_a, user_b, user_c) ==
    Only({[user |-> user,
           st |-> IF user_a.seq /= 0 /\ user_b.seq /= 0
                  THEN delete_user(st, user_b) ELSE st] :
          user \in {_update_user_affiliation(
                        merged_user(merged_fields(user_a, user_b, user_c),
                                    user_a, user_b, user_c))}})

\* update_user without the test of line 168: it merges and stores also when
\* both lookups returned the same persisted user
update_user_always_merge(st, record) ==
    Only({Only({store_user(m.st, m.user) :
                m \in {IF user_e /= NoUser \/ user_l /= NoUser
                       THEN _merge_user_profiles(st, user_e, user_l, fresh)
                       ELSE [user |-> fresh, st |-> st]}}) :
          user_e \in {load_user(st.users, record.author_email)},
          user_l \in {load_user(st.users, record.ldap_id)},
          fresh \in {_create_user(record.ldap_id, record.author_email,
                                  record.author_name)}})

\* [user, st]: the user returned and the storage afterwards
update_user(st, record) ==
    Only({IF user_e.seq = user_l.seq /\ user_e.seq /= 0
          THEN [user |-> user_e, st |-> st]
          ELSE Only({store_user(m.st, m.user) :
                     m \in {IF user_e /= NoUser \/ user_l /= NoUser
                            THEN _merge_user_profiles(st, user_e, user_l,
                                                      user)
                            ELSE [user |-> user, st |-> st]}}) :
          user_e \in {load_user(st.users, record.author_email)},
          user_l \in {load_user(st.users, record.ldap_id)},
          user \in {_create_user(record.ldap_id, record.author_email,
                                 record.author_name)}})

(***************************************************************************)
(* Records                                                                 *)
(***************************************************************************)
\* A record with no key set: record.get(key) of an absent key is the empty
\* value of the key's type.  The coauthor list a commit record carries along
\* and the raw fields nothing reads (subject, title, country) are left out.
\* review_number 0 is a record without the key; has_mention and
\* has_disagreement say whether the mention_count/mention_date and the
\* disagreement keys are there.
BlankRecord ==
    [primary_key |-> <<>>, record_type |-> Null, date |-> 0, week |-> 0,
     release |-> Null, user_id |-> <<>>, ldap_id |-> <<>>,
     author_name |-> Null, author_email |-> <<>>, company_name |-> Null,
     loc |-> 0, commit_date |-> 0, id |-> <<>>, status |-> Null,
     lastUpdated |-> 0, module |-> <<>>, branch |-> Null, value |-> 0,
     type |-> Null, review_id |-> <<>>, patch |-> 0, number |-> Null,
     updated_on |-> 0, change_id |-> <<>>, blueprint_id |-> <<>>,
     has_body |-> FALSE, launchpad_id |-> <<>>, email |-> <<>>,
     review_number |-> 0, has_mention |-> FALSE, mention_count |-> 0,
     mention_date |-> 0, has_disagreement |-> FALSE,
     disagreement |-> FALSE]

\* [record, st]: the record stamped with its user, and the storage afterwards
_update_record_and_user(st, record) ==
    Only({Only({[record |-> [record EXCEPT
                                !.user_id = u.user.user_id,
                                !.ldap_id = u.user.ldap_id,
                                !.author_name =
                                    IF Truthy(u.user.user_name)
                                    THEN u.user.user_name ELSE @,
                                !.company_name =
                                    IF company /= "*robots"
                                    THEN OrStr(_get_company_by_email(
                                                   domains_index,
                                                   record.author_email),
                                               company)
                                    ELSE company],
                 st |-> u.st] :
                company \in {_find_company(u.user.companies, record.date)}}) :
          u \in {update_user(st, record)}})

(***************************************************************************)
(* _determine_core_contributors                                            *)
(***************************************************************************)
\* 60 * 60 * 24 * 30 * 3
Quarter == 7776000

\* the time at construction
Now == Quarter + 75

\* core_engineers.get(user_id, []): the (module, branch) pairs of the recent
\* +2/-2 marks of the user
core_engineers(recs, now, user_id) ==
    {<<recs[i].module, recs[i].branch>> :
        i \in {j \in 1..Len(recs) :
                   /\ recs[j].record_type = "mark"
                   /\ recs[j].date > now - Quarter
                   /\ recs[j].value \in {2, -2}
                   /\ recs[j].user_id = user_id}}

RECURSIVE store_cores_additive(_, _, _, _)
\* the core pass adding the pairs found to the list held before
store_cores_additive(st, all, recs, now) ==
    IF all = <<>>
    THEN st
    ELSE Only({Only({store_cores_additive(next, Tail(all), recs, now) :
                     next \in {IF \/ ~Head(all).has_core
                                  \/ Head(all).core /= core
                               THEN store_user(st, [Head(all) EXCEPT
                                                        !.core = core,
                                                        !.has_core = TRUE]).st
                               ELSE st}}) :
               core \in {ListOf(Range(Head(all).core)
                                    \cup core_engineers(recs, now,
                                                        Head(all).user_id),
                                hash_order.pairs)}})

RECURSIVE store_cores(_, _, _, _)
\* for user in get_all_users(): replace the core list, store on a change
store_cores(st, all, recs, now) ==
    IF all = <<>>
    THEN st
    ELSE Only({Only({store_cores(next, Tail(all), recs, now) :
                     next \in {IF \/ ~Head(all).has_core
                                  \/ Head(all).core /= core
                               THEN store_user(st, [Head(all) EXCEPT
                                                        !.core = core,
                                                        !.has_core = TRUE]).st
                               ELSE st}}) :
               core \in {ListOf(core_engineers(recs, now,
                                               Head(all).user_id),
                                hash_order.pairs)}})

\* the storage after the pass over the records recs at time now
_determine_core_contributors(st, recs, now) ==
    Only({store_cores(st, all, recs, now) : all \in {get_all_users(st)}})

(***************************************************************************)
(* Event normalizers                                                       *)
(***************************************************************************)
DecimalDigits == <<"0", "1", "2", "3", "4", "5", "6", "7", "8", "9">>

RECURSIVE str(_)
\* str(n) of a non-negative integer
str(n) ==
    IF n < 10
    THEN <<DecimalDigits[n + 1]>>
    ELSE str(n \div 10) \o <<DecimalDigits[(n % 10) + 1]>>

\* int(s) of the approval values and patch numbers of a review event
int(s) ==
    CASE s = "-2" -> -2
      [] s = "-1" -> -1
      [] s = "0" -> 0
      [] s = "1" -> 1
      [] s = "2" -> 2
      [] s = "3" -> 3

\* str.find: the lowest 0-based position of sub in s, -1 when there is none
find(s, sub) ==
    LET at == {i \in 1..(Len(s) - Len(sub) + 1) :
                   SubSeq(s, i, i + Len(sub) - 1) = sub}
    IN  IF at = {} THEN -1 ELSE Min(at) - 1

\* the module of a record no module was found for
Unknown == <<"u", "n", "k", "n", "o", "w", "n">>

\* [out, st]: the records yielded and the storage afterwards, for nothing
Nothing(st) == [out |-> <<>>, st |-> st]

RECURSIVE update_coauthors(_, _, _)
\* for coauthor in coauthors: coauthor['date'] = record['date'], then
\* _update_record_and_user(coauthor); out holds the stamped coauthors
update_coauthors(st, coauthors, date) ==
    IF coauthors = <<>>
    THEN Nothing(st)
    ELSE Only({Only({[out |-> <<r.record>> \o rest.out, st |-> rest.st] :
                     rest \in {update_coauthors(r.st, Tail(coauthors),
                                                date)}}) :
               r \in {_update_record_and_user(st,
                          [BlankRecord EXCEPT
                               !.author_name = Head(coauthors).author_name,
                               !.author_email = Head(coauthors).author_email,
                               !.date = date])}})

_process_commit(st, raw) ==
    Only({IF raw.coauthor = <<>>
          THEN Only({[out |-> IF r.record.company_name /= "*robots"
                              THEN <<r.record>> ELSE <<>>,
                      st |-> r.st] :
                     r \in {_update_record_and_user(st, record)}})
          ELSE Only({[out |-> [i \in 1..Len(cs.out) |->
                                  [record EXCEPT
                                       !.author_name = cs.out[i].author_name,
                                       !.author_email =
                                           cs.out[i].author_email,
                                       !.date = cs.out[i].date,
                                       !.user_id = cs.out[i].user_id,
                                       !.ldap_id = cs.out[i].ldap_id,
                                       !.company_name =
                                           cs.out[i].company_name,
                                       !.primary_key =
                                           @ \o cs.out[i].author_email]],
                      st |-> cs.st] :
                     cs \in {update_coauthors(st,
                                 raw.coauthor \o
                                     <<[author_name |-> record.author_name,
                                        author_email |->
                                            record.author_email]>>,
                                 record.date)}}) :
          record \in {[BlankRecord EXCEPT
                           !.record_type = "commit",
                           !.primary_key = raw.commit_id,
                           !.loc = raw.lines_added + raw.lines_deleted,
                           !.author_name = raw.author_name,
                           !.author_email = lower(raw.author_email),
                           !.date = raw.date,
                           !.commit_date = raw.date,
                           !.module = raw.module,
                           !.branch = raw.branch,
                           !.change_id = raw.change_id]}})

\* 'email' in person and 'username' in person
HasIdentity(person) == person.has_email /\ person.has_username

\* [record, st]
_make_review_record(st, record) ==
    LET owner == record.owner
        patch_sets == record.patchSets
        patch == patch_sets[Len(patch_sets)]
        review ==
            [BlankRecord EXCEPT
                 !.record_type = "review",
                 !.id = record.id,
                 !.module = record.module,
                 !.branch = record.branch,
                 !.status = record.status,
                 !.lastUpdated = record.lastUpdated,
                 !.primary_key = record.id,
                 !.ldap_id = owner.username,
                 !.author_name = owner.name,
                 !.author_email = lower(owner.email),
                 !.date = record.createdOn,
                 !.updated_on =
                     IF patch_sets = <<>> THEN record.createdOn
                     ELSE IF patch.has_approvals
                          THEN patch.approvals[1].grantedOn
                          ELSE patch.createdOn,
                 !.value =
                     IF patch_sets /= <<>> /\ patch.has_approvals
                     THEN Min({int(patch.approvals[i].value) :
                                   i \in 1..Len(patch.approvals)})
                     ELSE 0]
    IN  _update_record_and_user(st, review)

\* utils.get_patch_id: '<review_id>:<patch_number>'
get_patch_id(review_id, number) == review_id \o <<":", number>>

\* [record, st]
_make_patch_record(st, review, patch) ==
    LET uploader == patch.uploader
        patch_record ==
            [BlankRecord EXCEPT
                 !.record_type = "patch",
                 !.primary_key = get_patch_id(review.id, patch.number),
                 !.number = patch.number,
                 !.date = patch.createdOn,
                 !.ldap_id = uploader.username,
                 !.author_name = uploader.name,
                 !.author_email = lower(uploader.email),
                 !.module = review.module,
                 !.branch = review.branch,
                 !.review_id = review.id]
    IN  _update_record_and_user(st, patch_record)

\* [record, st]
_make_mark_record(st, review, patch, approval) ==
    LET reviewer == approval.by
        mark ==
            [BlankRecord EXCEPT
                 !.type = approval.type,
                 !.record_type = "mark",
                 !.value = int(approval.value),
                 !.date = approval.grantedOn,
                 !.primary_key =
                     review.id \o str(approval.grantedOn) \o <<approval.type>>,
                 !.ldap_id = reviewer.username,
                 !.author_name = reviewer.name,
                 !.author_email = lower(reviewer.email),
                 !.module = review.module,
                 !.branch = review.branch,
                 !.review_id = review.id,
                 !.patch = int(patch.number)]
    IN  _update_record_and_user(st, mark)

RECURSIVE review_approvals(_, _, _, _)
\* for approval in patch['approvals']
review_approvals(st, record, patch, approvals) ==
    IF approvals = <<>>
    THEN Nothing(st)
    ELSE IF \/ Head(approvals).type \notin {"Code-Review", "Workflow"}
            \/ ~HasIdentity(Head(approvals).by)
         THEN review_approvals(st, record, patch, Tail(approvals))
         ELSE Only({Only({[out |-> <<m.record>> \o rest.out,
                           st |-> rest.st] :
                          rest \in {review_approvals(m.st, record, patch,
                                                     Tail(approvals))}}) :
                    m \in {_make_mark_record(st, record, patch,
                                             Head(approvals))}})

RECURSIVE review_patches_any_uploader(_, _, _)
\* the loop over the patch sets without the 'continue' of lines 305-307 for
\* the approvals: a patch set of an uploader without email or username
\* gives no patch record, but its approvals are still looked at
review_patches_any_uploader(st, record, patches) ==
    IF patches = <<>>
    THEN Nothing(st)
    ELSE Only({Only({Only({[out |-> p.out \o marks.out \o rest.out,
                            st |-> rest.st] :
                           rest \in {review_patches_any_uploader(
                                         marks.st, record, Tail(patches))}}) :
                     marks \in {IF Head(patches).has_approvals
                                THEN review_approvals(
                                         p.st, record, Head(patches),
                                         Head(patches).approvals)
                                ELSE Nothing(p.st)}}) :
               p \in {IF HasIdentity(Head(patches).uploader)
                      THEN Only({[out |-> <<r.record>>, st |-> r.st] :
                                 r \in {_make_patch_record(st, record,
                                                           Head(patches))}})
                      ELSE Nothing(st)}})

RECURSIVE review_patches(_, _, _)
\* for patch in record.get('patchSets', [])
review_patches(st, record, patches) ==
    IF patches = <<>>
    THEN Nothing(st)
    ELSE IF ~HasIdentity(Head(patches).uploader)
         THEN review_patches(st, record, Tail(patches))
         ELSE Only({Only({Only({[out |-> <<p.record>> \o marks.out
                                             \o rest.out,
                                 st |-> rest.st] :
                                rest \in {review_patches(marks.st, record,
                                                         Tail(patches))}}) :
                          marks \in {IF Head(patches).has_approvals
                                     THEN review_approvals(
                                              p.st, record, Head(patches),
                                              Head(patches).approvals)
                                     ELSE Nothing(p.st)}}) :
                    p \in {_make_patch_record(st, record, Head(patches))}})

\* _process_review without the owner test of lines 299-300
process_review_any_owner(st, record) ==
    Only({Only({[out |-> <<review.record>> \o rest.out,
                 st |-> rest.st] :
                rest \in {review_patches(review.st, record,
                                         record.patchSets)}}) :
          review \in {_make_review_record(st, record)}})

_process_review(st, record) ==
    IF ~HasIdentity(record.owner)
    THEN Nothing(st)
    ELSE Only({Only({[out |-> <<review.record>> \o rest.out,
                      st |-> rest.st] :
                     rest \in {review_patches(review.st, record,
                                              record.patchSets)}}) :
               review \in {_make_review_record(st, record)}})

\* The records _guess_module may leave: the loop keeps the module found at
\* the lowest position of the subject, and of several modules found at that
\* position the one the set iteration meets first.
_guess_module(registry, record, subject) ==
    LET subj == lower(subject)
        found == {m \in registry.modules :
                      find(subj, m) >= 0 /\ find(subj, m) < Len(subj)}
        pos == Min({find(subj, m) : m \in found})
        guesses == IF found = {} THEN {<<>>}
                   ELSE {m \in found : find(subj, m) = pos}
        guessed(best) ==
            IF /\ best /= <<>>
               /\ \/ pos > 0 /\ subj[(pos - 1) + 1] = "["
                  \/ record.module = <<>>
            THEN best ELSE record.module
        final(module) ==
            IF module = <<>> THEN Unknown
            ELSE IF module \in DOMAIN registry.alias_module_map
                 THEN registry.alias_module_map[module]
                 ELSE module
    IN  {[record EXCEPT !.module = final(guessed(best))] : best \in guesses}

\* the outcomes [out, st] of _process_email under a built registry
_process_email(st, registry, raw) ==
    UNION {{[out |-> <<[g EXCEPT !.has_body = g.blueprint_id /= <<>>]>>,
             st |-> r.st] :
            g \in _guess_module(registry, r.record, raw.subject)} :
           r \in {_update_record_and_user(st,
                      [BlankRecord EXCEPT
                           !.record_type = "email",
                           !.primary_key = raw.message_id,
                           !.author_name = raw.author_name,
                           !.author_email = lower(raw.author_email),
                           !.date = raw.date,
                           !.blueprint_id = raw.blueprint_id,
                           !.has_body = TRUE])}}

_process_blueprint(st, record) ==
    Only({IF record.assignee /= <<>> /\ record.date_completed /= 0
          THEN Only({[out |-> <<bpd.record, bpc.record>>, st |-> bpc.st] :
                     bpc \in {_update_record_and_user(bpd.st,
                                  [BlankRecord EXCEPT
                                       !.id = record.id,
                                       !.module = record.module,
                                       !.record_type = "bpc",
                                       !.primary_key =
                                           <<"b", "p", "c", ":">>
                                               \o record.id,
                                       !.launchpad_id = record.assignee,
                                       !.date = record.date_completed])}})
          ELSE [out |-> <<bpd.record>>, st |-> bpd.st] :
          bpd \in {_update_record_and_user(st,
                       [BlankRecord EXCEPT
                            !.id = record.id,
                            !.module = record.module,
                            !.record_type = "bpd",
                            !.primary_key =
                                <<"b", "p", "d", ":">> \o record.id,
                            !.launchpad_id =
                                OrSeq(record.drafter, record.owner),
                            !.date = record.date_created])}})

\* utils.member_date_to_timestamp, on the dates of the member events
member_date_to_timestamp(date_joined) ==
    CASE date_joined = "" -> 0
      [] date_joined = "January 02, 1970 " -> 24 * 3600
      [] date_joined = "January 12, 1970 " -> 11 * 24 * 3600

\* utils.normalize_company_name, on the company drafts of the member events:
\* the letters and digits of the name, in lower case
normalize_company_name(company_draft) ==
    CASE company_draft = "*robots" -> <<"r", "o", "b", "o", "t", "s">>
      [] company_draft = "Bots Inc" ->
             <<"b", "o", "t", "s", "i", "n", "c">>
      [] company_draft = "Acme" -> <<"a", "c", "m", "e">>

\* 'member:'
MemberPrefix == <<"m", "e", "m", "b", "e", "r", ":">>

_process_member(st, raw) ==
    Only({Only({Only({[out |-> <<[r.record EXCEPT
                                      !.company_name = company_name]>>,
                       st |-> stored.st] :
                      stored \in {store_user(r.st,
                                      [load_user(r.st.users,
                                                 OrSeq(r.record.user_id,
                                                       user_id))
                                       EXCEPT
                                           !.user_name = r.record.author_name,
                                           !.companies =
                                               <<[company_name |->
                                                      company_name,
                                                  end_date |-> 0]>>,
                                           !.company_name = company_name])}}) :
                r \in {_update_record_and_user(st,
                           [BlankRecord EXCEPT
                                !.record_type = "member",
                                !.primary_key = user_id,
                                !.date = member_date_to_timestamp(
                                             raw.date_joined),
                                !.author_name = raw.member_name,
                                !.email = raw.email,
                                !.module = Unknown,
                                !.author_email = OrSeq(raw.email, user_id),
                                !.company_name = company_name])}}) :
          user_id \in {MemberPrefix \o raw.member_id},
          company_name \in
              {IF normalize_company_name(raw.company_draft)
                      \in DOMAIN domains_index
               THEN OrStr(domains_index[normalize_company_name(
                                            raw.company_draft)],
                          raw.company_draft)
               ELSE raw.company_draft}})

\* the outcomes [out, st, modules]; only an email event builds the registry
_apply_type_based_processing(st, registry, repos, record) ==
    CASE record.record_type = "commit" ->
             {[out |-> o.out, st |-> o.st, modules |-> registry] :
                 o \in {_process_commit(st, record)}}
      [] record.record_type = "review" ->
             {[out |-> o.out, st |-> o.st, modules |-> registry] :
                 o \in {_process_review(st, record)}}
      [] record.record_type = "email" ->
             UNION {{[out |-> o.out, st |-> o.st, modules |-> reg] :
                        o \in _process_email(st, reg, record)} :
                    reg \in _get_modules(registry, repos)}
      [] record.record_type = "bp" ->
             {[out |-> o.out, st |-> o.st, modules |-> registry] :
                 o \in {_process_blueprint(st, record)}}
      [] record.record_type = "member" ->
             {[out |-> o.out, st |-> o.st, modules |-> registry] :
                 o \in {_process_member(st, record)}}
      [] OTHER -> {[out |-> <<>>, st |-> st, modules |-> registry]}

\* utils.timestamp_to_week: whole weeks since Sunday 4 January 1970
timestamp_to_week(timestamp) ==
    (timestamp - 3 * 24 * 3600) \div (7 * 24 * 3600)

_renew_record_date(rels, record) ==
    [record EXCEPT !.week = timestamp_to_week(record.date),
                   !.release = IF Truthy(@) THEN @
                               ELSE _get_release(rels, record.date)]

RECURSIVE renewed(_, _)
\* the loop body of process over the records one event gave
renewed(rels, out) ==
    IF out = <<>>
    THEN <<>>
    ELSE IF Head(out).company_name = "*robots"
         THEN renewed(rels, Tail(out))
         ELSE <<_renew_record_date(rels, Head(out))>>
                  \o renewed(rels, Tail(out))

RECURSIVE all_renewed(_, _)
\* process with the test of line 443 left out
all_renewed(rels, out) ==
    IF out = <<>>
    THEN <<>>
    ELSE <<_renew_record_date(rels, Head(out))>>
             \o all_renewed(rels, Tail(out))

\* process that yields every record of the event
process_unfiltered(st, registry, repos, rels, record) ==
    {[o EXCEPT !.out = all_renewed(rels, o.out)] :
        o \in _apply_type_based_processing(st, registry, repos, record)}

\* the outcomes [out, st, modules] of process over one raw event
process(st, registry, repos, rels, record) ==
    {[o EXCEPT !.out = renewed(rels, o.out)] :
        o \in _apply_type_based_processing(st, registry, repos, record)}

(***************************************************************************)
(* The record store and the user-info refresh of update                    *)
(***************************************************************************)
\* runtime_storage_inst.set_records for one record: upsert by primary_key
set_record(recs, record) ==
    IF \E i \in 1..Len(recs) : recs[i].primary_key = record.primary_key
    THEN [i \in 1..Len(recs) |->
              IF recs[i].primary_key = record.primary_key
              THEN record ELSE recs[i]]
    ELSE Append(recs, record)

RECURSIVE set_records(_, _)
\* runtime_storage_inst.set_records: upsert each record of the sequence
set_records(recs, out) ==
    IF out = <<>>
    THEN recs
    ELSE set_records(set_record(recs, Head(out)), Tail(out))

RECURSIVE records_with_user_info(_, _)
\* for record in get_all_records(): [out, st], out the records yielded
records_with_user_info(st, recs) ==
    IF recs = <<>>
    THEN Nothing(st)
    ELSE Only({Only({[out |-> (IF \/ r.record.company_name
                                        /= Head(recs).company_name
                                  \/ r.record.user_id /= Head(recs).user_id
                                  \/ r.record.author_name
                                        /= Head(recs).author_name
                               THEN <<r.record>> ELSE <<>>) \o rest.out,
                      st |-> rest.st] :
                     rest \in {records_with_user_info(r.st, Tail(recs))}}) :
               r \in {_update_record_and_user(st, Head(recs))}})

_update_records_with_user_info(st, recs) == records_with_user_info(st, recs)

RECURSIVE records_with_releases(_, _, _)
\* for record in get_all_records(): the records yielded
records_with_releases(rels, release_index, recs) ==
    IF recs = <<>>
    THEN <<>>
    ELSE LET record == Head(recs)
             release == IF record.primary_key \in DOMAIN release_index
                        THEN release_index[record.primary_key]
                        ELSE _get_release(rels, record.date)
         IN  (IF record.release /= release
              THEN <<[record EXCEPT !.release = release]>> ELSE <<>>)
                 \o records_with_releases(rels, release_index, Tail(recs))

_update_records_with_releases(rels, release_index, recs) ==
    records_with_releases(rels, release_index, recs)

(***************************************************************************)
(* The review numbering, blueprint mention and merge-date passes of update *)
(***************************************************************************)
\* the numbering in the order of the storage, whatever the dates
review_number_by_position(recs, i) ==
    1 + Cardinality({j \in 1..Len(recs) :
                         /\ recs[j].record_type = "review"
                         /\ recs[j].ldap_id = recs[i].ldap_id
                         /\ j < i})

\* review['review_number'] of the review record recs[i]: its 1-based place
\* among the reviews of its ldap_id sorted by date; list.sort is stable, so
\* reviews of one date keep the order of the storage
review_number(recs, i) ==
    1 + Cardinality({j \in 1..Len(recs) :
                         /\ recs[j].record_type = "review"
                         /\ recs[j].ldap_id = recs[i].ldap_id
                         /\ \/ recs[j].date < recs[i].date
                            \/ recs[j].date = recs[i].date /\ j < i})

RECURSIVE reviews_with_sequence_number(_, _)
\* the third loop: the review records whose number differs, renumbered
reviews_with_sequence_number(recs, i) ==
    IF i > Len(recs)
    THEN <<>>
    ELSE (IF /\ recs[i].record_type = "review"
             /\ recs[i].review_number /= review_number(recs, i)
          THEN <<[recs[i] EXCEPT !.review_number = review_number(recs, i)]>>
          ELSE <<>>) \o reviews_with_sequence_number(recs, i + 1)

_update_reviews_with_sequence_number(recs) ==
    reviews_with_sequence_number(recs, 1)

RECURSIVE mentioned_blueprints_last_date(_, _, _)
\* the mention count with the date of the last record that mentions bp
mentioned_blueprints_last_date(recs, bp, i) ==
    IF i > Len(recs)
    THEN [count |-> 0, date |-> 0]
    ELSE Only({Only({[count |-> n + rest.count,
                      date |-> IF rest.count = 0 /\ n > 0 THEN recs[i].date
                               ELSE rest.date] :
                     rest \in {mentioned_blueprints_last_date(recs, bp,
                                                              i + 1)}}) :
               n \in {Cardinality({k \in 1..Len(recs[i].blueprint_id) :
                                       recs[i].blueprint_id[k] = bp})}})

RECURSIVE mentioned_blueprints(_, _, _)
\* mentioned_blueprints[bp] over the records from the i-th on: the count of
\* the blueprint_id entries equal to bp and the greatest date of a record
\* that holds one; count 0 when bp is not a key
mentioned_blueprints(recs, bp, i) ==
    IF i > Len(recs)
    THEN [count |-> 0, date |-> 0]
    ELSE Only({Only({[count |-> n + rest.count,
                      date |-> IF n = 0 THEN rest.date
                               ELSE IF rest.count = 0 THEN recs[i].date
                               ELSE Max({recs[i].date, rest.date})] :
                     rest \in {mentioned_blueprints(recs, bp, i + 1)}}) :
               n \in {Cardinality({k \in 1..Len(recs[i].blueprint_id) :
                                       recs[i].blueprint_id[k] = bp})}})

\* the keys of valid_blueprints: the ids of the bpd and bpc records
valid_blueprints(recs) ==
    {recs[i].id : i \in {j \in 1..Len(recs) :
                             recs[j].record_type \in {"bpd", "bpc"}}}

RECURSIVE records_with_mention_info(_, _, _)
\* the second pass over the records: invalid references are pruned, the
\* bpd and bpc records take the mention count and date, and a record that
\* changed is yielded
records_with_mention_info(recs, all, valid) ==
    IF recs = <<>>
    THEN <<>>
    ELSE Only({Only({(IF pruned \/ differs
                      THEN <<[Head(recs) EXCEPT
                                  !.blueprint_id =
                                      ListOf(Range(@) \cap valid,
                                             hash_order.strings),
                                  !.has_mention = @ \/ differs,
                                  !.mention_count =
                                      IF differs THEN bp.count ELSE @,
                                  !.mention_date =
                                      IF differs THEN bp.date ELSE @]>>
                      ELSE <<>>)
                         \o records_with_mention_info(Tail(recs), all, valid) :
                     differs \in {/\ Head(recs).record_type \in {"bpd", "bpc"}
                                  /\ \/ ~Head(recs).has_mention
                                     \/ Head(recs).mention_count /= bp.count
                                     \/ Head(recs).mention_date /= bp.date}}) :
               pruned \in {\E k \in 1..Len(Head(recs).blueprint_id) :
                               Head(recs).blueprint_id[k] \notin valid},
               bp \in {mentioned_blueprints(all, Head(recs).id, 1)}})

_update_blueprints_with_mention_info(recs) ==
    records_with_mention_info(recs, recs, valid_blueprints(recs))

\* the reviews behind change_id_to_date[change_id]: the positions of the
\* MERGED review records of that id
merged_reviews(recs, change_id) ==
    {i \in 1..Len(recs) : /\ recs[i].record_type = "review"
                          /\ recs[i].status = "MERGED"
                          /\ recs[i].id = change_id}

RECURSIVE commits_with_merge_date(_, _, _)
\* the second loop: a commit of exactly one known change id whose date
\* differs from the review's lastUpdated takes that date and is yielded
commits_with_merge_date(rels, recs, all) ==
    IF recs = <<>>
    THEN <<>>
    ELSE (IF /\ Head(recs).record_type = "commit"
             /\ Len(Head(recs).change_id) = 1
             /\ merged_reviews(all, Head(recs).change_id[1]) /= {}
             /\ Head(recs).date
                    /= all[Max(merged_reviews(
                                   all, Head(recs).change_id[1]))].lastUpdated
          THEN <<_renew_record_date(
                     rels,
                     [Head(recs) EXCEPT
                          !.date = all[Max(merged_reviews(
                                               all, Head(recs).change_id[1]))]
                                       .lastUpdated])>>
          ELSE <<>>) \o commits_with_merge_date(rels, Tail(recs), all)

_update_commits_with_merge_date(rels, recs) ==
    commits_with_merge_date(rels, recs, recs)

(***************************************************************************)
(* _close_patch and _update_marks_with_disagreement                        *)
(***************************************************************************)
\* sorted(marks, key=lambda x: x['date'], reverse=True): descending date,
\* marks of one date in the order of the list (the sort is stable)
sorted_by_date(marks) ==
    [k \in 1..Len(marks) |->
        marks[CHOOSE i \in 1..Len(marks) :
                  k = 1 + Cardinality({j \in 1..Len(marks) :
                              \/ marks[j].date > marks[i].date
                              \/ marks[j].date = marks[i].date /\ j < i})]]

RECURSIVE close_from(_, _, _)
\* the loop of _close_patch from a mark on, core_mark being the value of
\* the core mark met so far (0 for none): the marks yielded
close_from(cores, marks, core_mark) ==
    IF marks = <<>>
    THEN <<>>
    ELSE IF /\ core_mark = 0
            /\ <<Head(marks).module, Head(marks).branch,
                 Head(marks).user_id>> \in cores
         THEN close_from(cores, Tail(marks), Head(marks).value)
         ELSE Only({(IF (Head(marks).has_disagreement
                             /\ Head(marks).disagreement) /= disagreement
                     THEN <<[Head(marks) EXCEPT
                                 !.has_disagreement = TRUE,
                                 !.disagreement = disagreement]>>
                     ELSE <<>>) \o close_from(cores, Tail(marks), core_mark) :
                    disagreement \in
                        {/\ core_mark /= 0
                         /\ \/ (core_mark < 0 /\ 0 < Head(marks).value)
                            \/ (core_mark > 0 /\ 0 > Head(marks).value)}})

_close_patch(cores, marks) ==
    IF Len(marks) < 2
    THEN <<>>
    ELSE close_from(cores, sorted_by_date(marks), 0)

\* cores: (module, branch, user_id) for every pair of every user's core;
\* a user document without the key is taken as one with an empty list
core_triples(all) ==
    UNION {{<<all[i].core[k][1], all[i].core[k][2], all[i].user_id>> :
                k \in 1..Len(all[i].core)} : i \in 1..Len(all)}

\* marks_per_patch without the entry of a review
without_review(groups, review_id) ==
    SelectSeq(groups, LAMBDA g : g.review_id /= review_id)

\* marks_per_patch[review_id]['patch_number'] = patch_number and
\* ['marks'].append(record): the entry is created at the end when missing
with_mark(groups, record) ==
    IF \E k \in 1..Len(groups) : groups[k].review_id = record.review_id
    THEN [k \in 1..Len(groups) |->
             IF groups[k].review_id = record.review_id
             THEN [groups[k] EXCEPT !.patch_number = record.patch,
                                    !.marks = Append(@, record)]
             ELSE groups[k]]
    ELSE Append(groups, [review_id |-> record.review_id,
                         patch_number |-> record.patch,
                         marks |-> <<record>>])

RECURSIVE purge(_, _)
\* the last loop: every entry left is closed, in the order of the dict
purge(cores, groups) ==
    IF groups = <<>>
    THEN [out |-> <<>>, closed |-> <<>>]
    ELSE Only({[out |-> _close_patch(cores, Head(groups).marks) \o rest.out,
                closed |-> <<Head(groups).marks>> \o rest.closed] :
               rest \in {purge(cores, Tail(groups))}})

RECURSIVE marks_with_disagreement(_, _, _)
\* the loop over the records with marks_per_patch = groups. [out, closed]:
\* the marks yielded and the lists of marks handed to _close_patch
marks_with_disagreement(cores, recs, groups) ==
    IF recs = <<>>
    THEN purge(cores, groups)
    ELSE IF ~(/\ Head(recs).record_type = "mark"
              /\ Head(recs).type = "Code-Review")
         THEN marks_with_disagreement(cores, Tail(recs), groups)
         ELSE IF \E k \in 1..Len(groups) :
                     /\ groups[k].review_id = Head(recs).review_id
                     /\ groups[k].patch_number < Head(recs).patch
              THEN Only({Only({[out |-> _close_patch(cores, current.marks)
                                            \o rest.out,
                                closed |-> <<current.marks>> \o rest.closed] :
                               rest \in {marks_with_disagreement(
                                             cores, Tail(recs),
                                             with_mark(
                                                 without_review(
                                                     groups,
                                                     Head(recs).review_id),
                                                 Head(recs)))}}) :
                         current \in {groups[k] : k \in
                                        {j \in 1..Len(groups) :
                                             groups[j].review_id
                                                 = Head(recs).review_id}}})
              ELSE marks_with_disagreement(cores, Tail(recs),
                                           with_mark(groups, Head(recs)))

\* [out, closed] of the pass over the records recs with the users all
_update_marks_with_disagreement(all, recs) ==
    marks_with_disagreement(core_triples(all), recs, <<>>)

(***************************************************************************)
(* update, from its first statement to its last                            *)
(***************************************************************************)
\* [st, records, out]: the storage after update's statements from the
\* named one on, out holding what each statement yielded so far

\* set_records(self._update_marks_with_disagreement())
update_marks(st, recs, outs) ==
    Only({[st |-> st, records |-> set_records(recs, p.out),
           out |-> Append(outs, p.out)] :
          p \in {_update_marks_with_disagreement(get_all_users(st), recs)}})

\* self._determine_core_contributors()
update_cores(st, recs, outs, now) ==
    Only({update_marks(s, recs, outs) :
          s \in {_determine_core_contributors(st, recs, now)}})

\* set_records(self._update_commits_with_merge_date())
update_merge_date(st, recs, outs, rels, now) ==
    Only({update_cores(st, set_records(recs, o), Append(outs, o), now) :
          o \in {_update_commits_with_merge_date(rels, recs)}})

\* set_records(self._update_blueprints_with_mention_info())
update_mention_info(st, recs, outs, rels, now) ==
    Only({update_merge_date(st, set_records(recs, o), Append(outs, o),
                            rels, now) :
          o \in {_update_blueprints_with_mention_info(recs)}})

\* set_records(self._update_reviews_with_sequence_number())
update_review_number(st, recs, outs, rels, now) ==
    Only({update_mention_info(st, set_records(recs, o), Append(outs, o),
                              rels, now) :
          o \in {_update_reviews_with_sequence_number(recs)}})

\* if release_index: set_records(_update_records_with_releases(...))
update_releases(st, recs, outs, rels, release_index, now) ==
    Only({update_review_number(st, set_records(recs, o), Append(outs, o),
                               rels, now) :
          o \in {IF release_index /= EmptyMap
                 THEN _update_records_with_releases(rels, release_index,
                                                    recs)
                 ELSE <<>>}})

\* update(release_index) at the time now
update(st, recs, rels, release_index, now) ==
    Only({update_releases(p.st, set_records(recs, p.out), <<p.out>>, rels,
                          release_index, now) :
          p \in {_update_records_with_user_info(st, recs)}})

(***************************************************************************)
(* The storage before anything is stored                                   *)
(***************************************************************************)
\* the part of the state a pure function does not touch
IdleStorage ==
    /\ modules = NoRegistry
    /\ users = EmptyMap
    /\ user_count = 0
    /\ records = <<>>
    /\ hash_order = <<>>
    /\ ingested = 0

(***************************************************************************)
(* SpecFindCompany: _find_company on every ordered interval list           *)
(***************************************************************************)
CompanyNames == {"A", "B", "*independent"}

EndDates == {0, 50, 100}

Dates == {0, 50, 100, 150}

\* ascending end_date, the open-ended interval (end_date 0) last
AscendingIntervals(c) ==
    /\ \A i \in 1..Len(c) : c[i].end_date = 0 => i = Len(c)
    /\ \A i, j \in 1..Len(c) :
           i < j /\ c[j].end_date /= 0 => c[i].end_date <= c[j].end_date

IntervalLists ==
    {c \in SeqsUpTo([company_name : CompanyNames, end_date : EndDates],
                    MaxIntervals) : AscendingIntervals(c)}

InitFindCompany ==
    /\ time = Now
    /\ IdleStorage
    /\ domains_index = EmptyMap
    /\ releases = <<>>
    /\ call \in [op : {"_find_company"}, companies : IntervalLists,
                 date : Dates]
    /\ result = Null
    /\ pc = "call"

FindCompany ==
    /\ pc = "call"
    /\ call.op = "_find_company"
    /\ result' = _find_company(call.companies, call.date)
    /\ pc' = "ret"
    /\ UNCHANGED <<domains_index, releases, modules, users, user_count,
                   records, hash_order, call, ingested, time>>

SpecFindCompany == InitFindCompany /\ [][FindCompany]_vars

(***************************************************************************)
(* SpecCompanyByEmail: _get_company_by_email on every short email          *)
(***************************************************************************)
EmailChars == {"a", ".", "@"}

\* every string over EmailChars of at most MaxEmailLen characters
ShortEmails == {<<>>} \cup SeqsUpTo(EmailChars, MaxEmailLen)

\* the keys a domain index may hold, each mapped to a company of its own
IndexKeys ==
    {<<"a">>, <<"a", ".", "a">>, <<"a", "a", ".", "a">>,
     <<"a", ".", "a", ".", "a">>, <<".", "a">>}

CompanyOfKey(k) ==
    IF k = <<"a">> THEN "Top"
    ELSE IF k = <<"a", ".", "a">> THEN "X"
    ELSE IF k = <<"a", "a", ".", "a">> THEN "W"
    ELSE IF k = <<"a", ".", "a", ".", "a">> THEN "Y"
    ELSE "Z"

InitCompanyByEmail ==
    /\ time = Now
    /\ IdleStorage
    /\ \E K \in SUBSET IndexKeys :
           domains_index = [k \in K |-> CompanyOfKey(k)]
    /\ releases = <<>>
    /\ call \in [op : {"_get_company_by_email"}, email : ShortEmails]
    /\ result = Null
    /\ pc = "call"

GetCompanyByEmail ==
    /\ pc = "call"
    /\ call.op = "_get_company_by_email"
    /\ result' = _get_company_by_email(domains_index, call.email)
    /\ pc' = "ret"
    /\ UNCHANGED <<domains_index, releases, modules, users, user_count,
                   records, hash_order, call, ingested, time>>

SpecCompanyByEmail == InitCompanyByEmail /\ [][GetCompanyByEmail]_vars

(***************************************************************************)
(* SpecGetRelease: _get_release on every ascending release list            *)
(***************************************************************************)
ReleaseNames == {"havana", "icehouse"}

ReleaseEnds == {10, 20, 30}

Timestamps == {5, 10, 15, 20, 25, 30, 35}

AscendingReleases(r) ==
    \A i, j \in 1..Len(r) : i < j => r[i].end_date <= r[j].end_date

ReleaseLists ==
    {r \in SeqsUpTo([release_name : ReleaseNames, end_date : ReleaseEnds],
                    MaxReleases) : AscendingReleases(r)}

InitGetRelease ==
    /\ time = Now
    /\ IdleStorage
    /\ domains_index = EmptyMap
    /\ releases \in ReleaseLists
    /\ call \in [op : {"_get_release"}, timestamp : Timestamps]
    /\ result = Null
    /\ pc = "call"

GetRelease ==
    /\ pc = "call"
    /\ call.op = "_get_release"
    /\ result' = _get_release(releases, call.timestamp)
    /\ pc' = "ret"
    /\ UNCHANGED <<domains_index, releases, modules, users, user_count,
                   records, hash_order, call, ingested, time>>

SpecGetRelease == InitGetRelease /\ [][GetRelease]_vars

(***************************************************************************)
(* SpecGetModules: _get_modules on every short repository list             *)
(***************************************************************************)
ModuleNames ==
    {<<"b">>, <<"a", "b">>, <<"b", "c">>, <<"A", "b", "c">>}

AliasNames == {<<"b">>, <<"c", "a", "b">>}

RepoLists ==
    SeqsUpTo([module : ModuleNames,
              aliases : {<<>>} \cup {<<a>> : a \in AliasNames}], MaxRepos)

InitGetModules ==
    /\ time = Now
    /\ modules = NoRegistry
    /\ users = EmptyMap
    /\ user_count = 0
    /\ records = <<>>
    /\ hash_order = <<>>
    /\ ingested = 0
    /\ domains_index = EmptyMap
    /\ releases = <<>>
    /\ call \in [op : {"_get_modules"}, repos : RepoLists]
    /\ result = Null
    /\ pc = "call"

GetModules ==
    /\ pc = "call"
    /\ call.op = "_get_modules"
    /\ modules' \in _get_modules(modules, call.repos)
    /\ result' = modules'
    /\ pc' = "ret"
    /\ UNCHANGED <<domains_index, releases, users, user_count, records,
                   hash_order, call, ingested, time>>

SpecGetModules == InitGetModules /\ [][GetModules]_vars

(***************************************************************************)
(* SpecUsers: update_user called for events of every identity, with the    *)
(* core-contributor pass in between                                        *)
(***************************************************************************)
\* E1 resolves to no company, E2 to Zed
E1 == <<"u", "@", "q">>

E2 == <<"v", "@", "z", ".", "c">>

UserEmails == {E1, E2}

LdapX == <<"x">>

LdapY == <<"y">>

LdapIds == {LdapX, LdapY}

UserNames == {"", "Ann", "Bob"}

Pair1 == <<<<"m", "1">>, "b1">>

Pair2 == <<<<"m", "2">>, "b2">>

CorePairs == {Pair1, Pair2}

Orderings(S) ==
    {q \in [1..Cardinality(S) -> S] : \A i, j \in 1..Cardinality(S) :
                                          i /= j => q[i] /= q[j]}

\* a date within the quarter before Now
Recent == (Now - Quarter) + 25

\* a Code-Review mark by user_id on the pair, as the storage holds it
MarkBy(user_id, pair, value) ==
    [BlankRecord EXCEPT !.record_type = "mark", !.type = "Code-Review",
                        !.date = Recent, !.value = value,
                        !.module = pair[1], !.branch = pair[2],
                        !.user_id = user_id]

St == [users |-> users, user_count |-> user_count]

InitUsers ==
    /\ time = Now
    /\ modules = NoRegistry
    /\ users = EmptyMap
    /\ user_count = 0
    /\ records = <<>>
    /\ hash_order \in [strings : Orderings(UserEmails),
                       pairs : {<<Pair1, Pair2>>}]
    /\ domains_index = [k \in {<<"z", ".", "c">>} |-> "Zed"]
    /\ releases = <<>>
    /\ call = [op |-> "init", email |-> <<>>, ldap_id |-> <<>>,
               user_name |-> "", seq_e |-> 0, seq_l |-> 0]
    /\ result = NoUser
    /\ ingested = 0
    /\ pc = "run"

\* update_user(record) for an event of any email, directory id and name
UpdateUser ==
    \E email \in UserEmails, ldap_id \in LdapIds \cup {<<>>},
       user_name \in UserNames :
        \E r \in {update_user(St, [BlankRecord EXCEPT
                                        !.author_email = email,
                                        !.ldap_id = ldap_id,
                                        !.author_name = user_name])} :
            /\ r.st.user_count <= MaxUsers
            /\ users' = r.st.users
            /\ user_count' = r.st.user_count
            /\ call' = [op |-> "update_user", email |-> email,
                        ldap_id |-> ldap_id, user_name |-> user_name,
                        seq_e |-> load_user(users, email).seq,
                        seq_l |-> load_user(users, ldap_id).seq]
            /\ result' = r.user
            /\ UNCHANGED <<domains_index, releases, modules, records,
                           hash_order, ingested, pc, time>>

\* the marks a corpus may hold: a +2 by a directory user on a pair
MarkUniverse ==
    <<MarkBy(LdapX, Pair1, 2), MarkBy(LdapX, Pair2, 2),
      MarkBy(LdapY, Pair1, 2), MarkBy(LdapY, Pair2, 2)>>

\* the corpora of at most two of the marks
MarkCorpora ==
    {ListOf(S, MarkUniverse) :
        S \in {T \in SUBSET Range(MarkUniverse) : Cardinality(T) <= 2}}

\* _determine_core_contributors() over a corpus of marks
DetermineCoreContributors ==
    \E recs \in MarkCorpora :
        \E st \in {_determine_core_contributors(St, recs, Now)} :
            /\ users' = st.users
            /\ user_count' = st.user_count
            /\ call' = [op |-> "_determine_core_contributors",
                        email |-> <<>>, ldap_id |-> <<>>, user_name |-> "",
                        seq_e |-> 0, seq_l |-> 0]
            /\ result' = NoUser
            /\ UNCHANGED <<domains_index, releases, modules, records,
                           hash_order, ingested, pc, time>>

NextUsers == UpdateUser \/ DetermineCoreContributors

SpecUsers == InitUsers /\ [][NextUsers]_vars

(***************************************************************************)
(* The inputs of the ingestion and update specifications                   *)
(***************************************************************************)
E3 == <<"w", "@", "b", ".", "c">>

E4 == <<"t", "@", "q">>

\* z.c is Zed's domain, b.c a robot's; 'botsinc' is a normalized company name
PipelineIndex ==
    [k \in {<<"z", ".", "c">>, <<"b", ".", "c">>,
            <<"b", "o", "t", "s", "i", "n", "c">>} |->
        IF k = <<"z", ".", "c">> THEN "Zed" ELSE "*robots"]

PipelineReleases ==
    <<[release_name |-> "havana", end_date |-> 6],
      [release_name |-> "icehouse", end_date |-> 12 * 24 * 3600]>>

\* utils.load_repos: one repository with an alias
PipelineRepos == <<[module |-> <<"n">>, aliases |-> <<<<"m">>>>]>>

\* the emails and member keys a user document may list
PipelineStrings(n) ==
    <<E1, E2, E3, E4>> \o [i \in 1..n |-> MemberPrefix \o str(i)]

Reverse(q) == [i \in 1..Len(q) |-> q[(Len(q) + 1) - i]]

Person(email, username) ==
    [has_email |-> TRUE, has_username |-> TRUE, email |-> email,
     username |-> username, name |-> "Ann"]

\* a person whose 'email' key is missing
Nameless(username) ==
    [has_email |-> FALSE, has_username |-> TRUE, email |-> <<>>,
     username |-> username, name |-> "Ann"]

\* the n-th raw event, a commit
CommitEvents(n) ==
    {[record_type |-> "commit", commit_id |-> <<"c">> \o str(n),
      author_name |-> "Ann", author_email |-> e, date |-> 5,
      lines_added |-> 1, lines_deleted |-> 2, module |-> <<"n">>,
      branch |-> "master", change_id |-> <<>>, coauthor |-> c] :
        e \in {<<"U", "@", "q">>, E2, E3},
        c \in {<<>>, <<[author_name |-> "Bob", author_email |-> E3]>>}}

\* a patch set of a robot with no approvals, and one of a person with a
\* robot's Code-Review, a Verified and a person's Workflow
PatchSets ==
    {<<>>,
     <<[number |-> "1", createdOn |-> 6, uploader |-> Person(E3, LdapY),
        has_approvals |-> FALSE, approvals |-> <<>>]>>,
     <<[number |-> "2", createdOn |-> 6, uploader |-> Person(E1, LdapX),
        has_approvals |-> TRUE,
        approvals |->
            <<[type |-> "Code-Review", by |-> Person(E3, LdapY),
               value |-> "2", grantedOn |-> 7],
              [type |-> "Verified", by |-> Person(E1, LdapX),
               value |-> "1", grantedOn |-> 8],
              [type |-> "Workflow", by |-> Person(E2, LdapX),
               value |-> "-1", grantedOn |-> 9]>>]>>}

ReviewOf(n, owner, patchSets) ==
    [record_type |-> "review", id |-> <<"r">> \o str(n), owner |-> owner,
     createdOn |-> 5, patchSets |-> patchSets, module |-> <<"n">>,
     branch |-> "master", status |-> "NEW", lastUpdated |-> 9]

\* the n-th raw event, a review
ReviewEvents(n) ==
    {ReviewOf(n, owner, p) :
        owner \in {Person(E1, LdapX), Person(E3, LdapY), Nameless(LdapX)},
        p \in PatchSets}

\* the n-th raw event, a mail
EmailEvents(n) ==
    {[record_type |-> "email", message_id |-> <<"e">> \o str(n),
      author_name |-> "Ann", author_email |-> e, date |-> 5,
      subject |-> sb[1], blueprint_id |-> sb[2]] :
        e \in {E1, E3},
        sb \in {<<<<"R", "e", "[", "m", "]">>, <<>>>>,
                <<<<"x">>, <<<<"b", "1">>>>>>}}

\* the n-th raw event, a blueprint
BlueprintEvents(n) ==
    {[record_type |-> "bp", id |-> <<"b">> \o str(n), drafter |-> d,
      owner |-> LdapY, assignee |-> ac[1], date_created |-> 5,
      date_completed |-> ac[2], module |-> <<"n">>] :
        d \in {<<>>, LdapX}, ac \in {<<<<>>, 0>>, <<LdapX, 8>>}}

MemberOf(n, email, company_draft) ==
    [record_type |-> "member", member_id |-> str(n),
     date_joined |-> "January 02, 1970 ", member_name |-> "Max",
     email |-> email, company_draft |-> company_draft]

\* the n-th raw event, a member
MemberEvents(n) ==
    {MemberOf(n, e, c) :
        e \in {E1, <<>>}, c \in {"*robots", "Bots Inc", "Acme"}}

\* set_records(process([raw])): one raw event is processed and what process
\* yields is stored
Ingest(raw, bound) ==
    /\ ingested < bound
    /\ \E o \in process(St, modules, PipelineRepos, releases, raw) :
        /\ users' = o.st.users
        /\ user_count' = o.st.user_count
        /\ modules' = o.modules
        /\ records' = set_records(records, o.out)
        /\ result' = o.out
        /\ call' = [op |-> "process", record |-> raw, after |-> call.op]
        /\ ingested' = ingested + 1
        /\ UNCHANGED <<domains_index, releases, hash_order, pc, time>>

InitPipeline(n) ==
    /\ time = Now
    /\ modules = NoRegistry
    /\ users = EmptyMap
    /\ user_count = 0
    /\ records = <<>>
    /\ hash_order \in [strings : {PipelineStrings(n),
                                  Reverse(PipelineStrings(n))},
                       pairs : {<<>>}]
    /\ domains_index = PipelineIndex
    /\ releases = PipelineReleases
    /\ call = [op |-> "init", record |-> BlankRecord, after |-> "init"]
    /\ result = <<>>
    /\ ingested = 0
    /\ pc = "run"

(***************************************************************************)
(* SpecProcess: process over raw events of every type, one after another   *)
(***************************************************************************)
InitProcess == InitPipeline(MaxEvents)

ProcessCommit == \E raw \in CommitEvents(ingested + 1) : Ingest(raw, MaxEvents)

ProcessReview == \E raw \in ReviewEvents(ingested + 1) : Ingest(raw, MaxEvents)

ProcessEmail == \E raw \in EmailEvents(ingested + 1) : Ingest(raw, MaxEvents)

ProcessBlueprint ==
    \E raw \in BlueprintEvents(ingested + 1) : Ingest(raw, MaxEvents)

ProcessMember == \E raw \in MemberEvents(ingested + 1) : Ingest(raw, MaxEvents)

NextProcess ==
    \/ ProcessCommit
    \/ ProcessReview
    \/ ProcessEmail
    \/ ProcessBlueprint
    \/ ProcessMember

SpecProcess == InitProcess /\ [][NextProcess]_vars

(***************************************************************************)
(* SpecUpdate: reviews and members are ingested and the user-info and      *)
(* release passes of update run over the stored records                    *)
(***************************************************************************)
InitUpdate == InitPipeline(MaxStored)

StoreReview ==
    \E email \in {E1, E2, E4}, username \in LdapIds :
        Ingest(ReviewOf(ingested + 1, Person(email, username), <<>>),
               MaxStored)

StoreMember ==
    \E company_draft \in {"*robots", "Acme"} :
        Ingest(MemberOf(ingested + 1, E1, company_draft), MaxStored)

\* self.runtime_storage_inst.set_records(self._update_records_with_user_info())
UpdateRecordsWithUserInfo ==
    \E r \in {_update_records_with_user_info(St, records)} :
        /\ users' = r.st.users
        /\ user_count' = r.st.user_count
        /\ records' = set_records(records, r.out)
        /\ result' = r.out
        /\ call' = [op |-> "_update_records_with_user_info",
                    record |-> BlankRecord, after |-> call.op]
        /\ UNCHANGED <<domains_index, releases, modules, hash_order,
                       ingested, pc, time>>

\* the release index an update may be given: the first review is icehouse's
ReleaseIndex == [k \in {<<"r", "1">>} |-> "icehouse"]

\* self.runtime_storage_inst.set_records(
\*     self._update_records_with_releases(release_index))
UpdateRecordsWithReleases ==
    \E out \in {_update_records_with_releases(releases, ReleaseIndex,
                                              records)} :
        /\ records' = set_records(records, out)
        /\ result' = out
        /\ call' = [op |-> "_update_records_with_releases",
                    record |-> BlankRecord, after |-> call.op]
        /\ UNCHANGED <<domains_index, releases, modules, users, user_count,
                       hash_order, ingested, pc, time>>

NextUpdate ==
    \/ StoreReview
    \/ StoreMember
    \/ UpdateRecordsWithUserInfo
    \/ UpdateRecordsWithReleases

SpecUpdate == InitUpdate /\ [][NextUpdate]_vars

(***************************************************************************)
(* SpecAffiliation: _update_user_affiliation on users of every short list  *)
(* of company intervals and emails                                         *)
(***************************************************************************)
MaxAffiliationEmails == 3

\* no interval, one interval, or two in ascending end_date order
AffiliationCompanies ==
    {<<>>}
        \cup {<<[company_name |-> c, end_date |-> 0]>> :
                  c \in {"*independent", "Acme"}}
        \cup {<<[company_name |-> c1, end_date |-> 10],
                [company_name |-> c2, end_date |-> 0]>> :
                  c1 \in {"*independent", "Acme"},
                  c2 \in {"*independent", "Acme"}}

\* E1 resolves to no company, E2 to Zed, E3 to *robots
AffiliationEmails ==
    {<<>>} \cup SeqsUpTo({E1, E2, E3}, MaxAffiliationEmails)

AffiliationUsers ==
    {[NoUser EXCEPT !.seq = 1, !.user_id = LdapX, !.ldap_id = LdapX,
                    !.user_name = "Ann", !.companies = c, !.emails = e] :
        c \in AffiliationCompanies, e \in AffiliationEmails}

InitAffiliation ==
    /\ time = Now
    /\ modules = NoRegistry
    /\ users = EmptyMap
    /\ user_count = 0
    /\ records = <<>>
    /\ hash_order = <<>>
    /\ ingested = 0
    /\ domains_index = PipelineIndex
    /\ releases = <<>>
    /\ call \in [op : {"_update_user_affiliation"}, user : AffiliationUsers]
    /\ result = NoUser
    /\ pc = "call"

UpdateUserAffiliation ==
    /\ pc = "call"
    /\ call.op = "_update_user_affiliation"
    /\ result' = _update_user_affiliation(call.user)
    /\ pc' = "ret"
    /\ UNCHANGED <<domains_index, releases, modules, users, user_count,
                   records, hash_order, call, ingested, time>>

SpecAffiliation == InitAffiliation /\ [][UpdateUserAffiliation]_vars

(***************************************************************************)
(* SpecReview: process over one review event of every shape of owner,      *)
(* patch sets and approvals                                                *)
(***************************************************************************)
MaxPatchSets == 2

MaxApprovals == 2

\* a person whose 'username' key is missing
Anonymous(email) ==
    [has_email |-> TRUE, has_username |-> FALSE, email |-> email,
     username |-> <<>>, name |-> "Ann"]

\* a Code-Review and a Workflow of persons, a Verified, and a Code-Review
\* of somebody without email
ReviewApprovals ==
    {[type |-> "Code-Review", by |-> Person(E2, LdapY), value |-> "1",
      grantedOn |-> 7],
     [type |-> "Workflow", by |-> Person(E4, LdapY), value |-> "-1",
      grantedOn |-> 9],
     [type |-> "Verified", by |-> Person(E1, LdapX), value |-> "2",
      grantedOn |-> 8],
     [type |-> "Code-Review", by |-> Nameless(LdapY), value |-> "-2",
      grantedOn |-> 8]}

\* patch['approvals'] when the key is there: the approvals in any order
ApprovalLists ==
    {q \in SeqsUpTo(ReviewApprovals, MaxApprovals) :
         \A i, j \in 1..Len(q) : i /= j => q[i] /= q[j]}

\* the patch sets before the last one
EarlierPatches ==
    {[createdOn |-> 6, uploader |-> Person(E1, LdapX),
      has_approvals |-> FALSE, approvals |-> <<>>],
     [createdOn |-> 6, uploader |-> Person(E1, LdapX),
      has_approvals |-> TRUE,
      approvals |-> <<[type |-> "Code-Review", by |-> Person(E2, LdapY),
                       value |-> "-1", grantedOn |-> 6]>>],
     [createdOn |-> 6, uploader |-> Nameless(LdapX),
      has_approvals |-> TRUE,
      approvals |-> <<[type |-> "Workflow", by |-> Person(E2, LdapY),
                       value |-> "1", grantedOn |-> 6]>>]}

\* the last patch set: an uploader with or without email, no 'approvals'
\* key or a list of approvals
LastPatches ==
    {[createdOn |-> 6, uploader |-> u, has_approvals |-> a /= <<>>,
      approvals |-> a] :
        u \in {Person(E1, LdapX), Nameless(LdapX)},
        a \in {<<>>} \cup ApprovalLists}

\* record['patchSets']: the patch sets numbered from 1 in list order
PatchSetLists ==
    {<<>>}
        \cup {[i \in 1..Len(q) |->
                   [number |-> DecimalDigits[i + 1], createdOn |-> q[i].createdOn,
                    uploader |-> q[i].uploader,
                    has_approvals |-> q[i].has_approvals,
                    approvals |-> q[i].approvals]] :
              q \in {e \o <<l>> :
                         e \in {<<>>} \cup SeqsUpTo(EarlierPatches,
                                                    MaxPatchSets - 1),
                         l \in LastPatches}}

ReviewInputs ==
    {ReviewOf(1, owner, p) :
        owner \in {Person(E1, LdapX), Nameless(LdapX), Anonymous(E1)},
        p \in PatchSetLists}

\* the storage before the event: empty, or holding the user of an earlier
\* event
ReviewStorages ==
    {[users |-> EmptyMap, user_count |-> 0],
     update_user([users |-> EmptyMap, user_count |-> 0],
                 [BlankRecord EXCEPT !.author_email = E2,
                                     !.ldap_id = LdapX,
                                     !.author_name = "Bob"]).st}

InitReview ==
    /\ time = Now
    /\ domains_index = PipelineIndex
    /\ releases = PipelineReleases
    /\ hash_order = [strings |-> PipelineStrings(0), pairs |-> <<>>]
    /\ modules = NoRegistry
    /\ \E st \in ReviewStorages :
           users = st.users /\ user_count = st.user_count
    /\ records = <<>>
    /\ call = [op |-> "init", record |-> BlankRecord, after |-> "init"]
    /\ result = <<>>
    /\ ingested = 0
    /\ pc = "call"

\* set_records(process([raw])) for one review event; call.yielded is what
\* _process_review yields to process
ProcessReviewEvent ==
    /\ pc = "call"
    /\ \E raw \in ReviewInputs :
         \E o \in process(St, modules, PipelineRepos, releases, raw) :
            /\ users' = o.st.users
            /\ user_count' = o.st.user_count
            /\ modules' = o.modules
            /\ records' = set_records(records, o.out)
            /\ result' = o.out
            /\ call' = [op |-> "process", record |-> raw, after |-> call.op,
                        yielded |-> _process_review(St, raw).out]
            /\ ingested' = ingested + 1
            /\ pc' = "ret"
            /\ UNCHANGED <<domains_index, releases, hash_order, time>>

SpecReview == InitReview /\ [][ProcessReviewEvent]_vars

(***************************************************************************)
(* SpecMergeDate: commits with change ids and reviews of either status are *)
(* ingested and the merge-date pass of update runs over the stored records *)
(***************************************************************************)
\* raw events ingested in SpecMergeDate
MaxMerges == 3

\* a date in a later week than the commits' date, inside the last release
WeekLater == 11 * 24 * 3600

ChangeIds == {<<"r", "1">>, <<"r", "2">>}

\* the n-th raw event, a commit referring to the change ids change_id
CommitOf(n, change_id) ==
    [record_type |-> "commit", commit_id |-> <<"c">> \o str(n),
     author_name |-> "Ann", author_email |-> E2, date |-> 5,
     lines_added |-> 1, lines_deleted |-> 2, module |-> <<"n">>,
     branch |-> "master", change_id |-> change_id, coauthor |-> <<>>]

InitMergeDate ==
    /\ InitPipeline(MaxMerges)
    /\ hash_order.strings = PipelineStrings(MaxMerges)

StoreCommit ==
    \E change_id \in {<<>>, <<<<"r", "1">>>>, <<<<"r", "1">>, <<"r", "2">>>>,
                      <<<<"r", "9">>>>} :
        Ingest(CommitOf(ingested + 1, change_id), MaxMerges)

\* a review is fetched, again when it was fetched before
StoreReviewOfStatus ==
    \E id \in ChangeIds, status \in {"NEW", "MERGED"},
       lastUpdated \in {5, WeekLater} :
        Ingest([ReviewOf(1, Person(E2, LdapX), <<>>) EXCEPT
                    !.id = id, !.status = status,
                    !.lastUpdated = lastUpdated],
               MaxMerges)

\* self.runtime_storage_inst.set_records(
\*     self._update_commits_with_merge_date())
UpdateCommitsWithMergeDate ==
    \E out \in {_update_commits_with_merge_date(releases, records)} :
        /\ records' = set_records(records, out)
        /\ result' = out
        /\ call' = [op |-> "_update_commits_with_merge_date",
                    record |-> BlankRecord, after |-> call.op]
        /\ UNCHANGED <<domains_index, releases, modules, users, user_count,
                       hash_order, ingested, pc, time>>

NextMergeDate ==
    \/ StoreCommit
    \/ StoreReviewOfStatus
    \/ UpdateCommitsWithMergeDate

SpecMergeDate == InitMergeDate /\ [][NextMergeDate]_vars

(***************************************************************************)
(* SpecPasses: the marks of one review arrive patch set by patch set, in   *)
(* any order of the patch numbers, and update runs statement by statement  *)
(***************************************************************************)
\* raw events ingested in SpecPasses
MaxMarks == 3

\* the clock after the first marks have left the quarter
Later == Quarter + 15

\* one approval of a patch set: two +2/-2 votes that make a core engineer,
\* a -1 of the second reviewer and a 0 of the first
MarkApprovals ==
    {[type |-> "Code-Review", by |-> Person(E2, LdapX),
      value |-> "2", grantedOn |-> 10],
     [type |-> "Code-Review", by |-> Person(E4, LdapY),
      value |-> "-1", grantedOn |-> 5],
     [type |-> "Code-Review", by |-> Person(E4, LdapY),
      value |-> "-2", grantedOn |-> 20],
     [type |-> "Code-Review", by |-> Person(E2, LdapX),
      value |-> "0", grantedOn |-> 30]}

\* the review r1 as fetched with one patch set and one approval of it
MarkedReview(number, approval) ==
    [ReviewOf(1, Person(E2, LdapX),
              <<[number |-> number, createdOn |-> 6,
                 uploader |-> Person(E2, LdapX), has_approvals |-> TRUE,
                 approvals |-> <<approval>>]>>)
         EXCEPT !.lastUpdated = approval.grantedOn]

\* update with the core pass and the disagreement pass in the other order
next_pass_disagreement_first(after, release_index) ==
    CASE after = "run" -> "user_info"
      [] after = "user_info" ->
             IF release_index /= EmptyMap THEN "releases" ELSE "review_number"
      [] after = "releases" -> "review_number"
      [] after = "review_number" -> "mention_info"
      [] after = "mention_info" -> "merge_date"
      [] after = "merge_date" -> "disagreement"
      [] after = "disagreement" -> "cores"
      [] after = "cores" -> "run"

\* update's statement after the statement 'after' ("run": update is not
\* running), given release_index
next_pass(after, release_index) ==
    CASE after = "run" -> "user_info"
      [] after = "user_info" ->
             IF release_index /= EmptyMap THEN "releases" ELSE "review_number"
      [] after = "releases" -> "review_number"
      [] after = "review_number" -> "mention_info"
      [] after = "mention_info" -> "merge_date"
      [] after = "merge_date" -> "cores"
      [] after = "cores" -> "disagreement"
      [] after = "disagreement" -> "run"

InitPasses ==
    /\ time = Quarter
    /\ modules = NoRegistry
    /\ users = EmptyMap
    /\ user_count = 0
    /\ records = <<>>
    /\ hash_order = [strings |-> PipelineStrings(0),
                     pairs |-> <<<<<<"n">>, "master">>>>]
    /\ domains_index = PipelineIndex
    /\ releases = PipelineReleases
    /\ call = [op |-> "init", record |-> BlankRecord, after |-> "init"]
    /\ result = <<>>
    /\ ingested = 0
    /\ pc = "run"

StoreMark ==
    /\ pc = "run"
    /\ \E number \in {"1", "2"}, approval \in MarkApprovals :
           Ingest(MarkedReview(number, approval), MaxMarks)

\* a statement of update is done: the records it yielded are stored
Pass(name, out, st, closed) ==
    /\ users' = st.users
    /\ user_count' = st.user_count
    /\ records' = set_records(records, out)
    /\ result' = out
    /\ call' = [op |-> "update",
                release_index |-> call.release_index,
                passes |-> Append(call.passes, name),
                cores |-> IF name = "disagreement"
                          THEN core_triples(get_all_users(st))
                          ELSE call.cores,
                closed |-> closed]
    /\ pc' = IF next_pass(name, call.release_index) = "run"
             THEN "run" ELSE name
    /\ UNCHANGED <<domains_index, releases, modules, hash_order, ingested,
                   time>>

\* update(release_index) is called, some time after the last call, and runs
\* self.runtime_storage_inst.set_records(self._update_records_with_user_info())
UpdateCalled ==
    /\ pc = "run"
    /\ ingested > 0
    /\ \E release_index \in {EmptyMap, ReleaseIndex},
          now \in {time, Later},
          r \in {_update_records_with_user_info(St, records)} :
           /\ now >= time
           /\ users' = r.st.users
           /\ user_count' = r.st.user_count
           /\ records' = set_records(records, r.out)
           /\ result' = r.out
           /\ call' = [op |-> "update", release_index |-> release_index,
                       passes |-> <<next_pass("run", release_index)>>,
                       cores |-> {}, closed |-> <<>>]
           /\ pc' = next_pass("run", release_index)
           /\ time' = now
           /\ UNCHANGED <<domains_index, releases, modules, hash_order,
                          ingested>>

\* if release_index: set_records(_update_records_with_releases(release_index))
ReleasesPass ==
    /\ pc /= "run"
    /\ next_pass(pc, call.release_index) = "releases"
    /\ Pass("releases",
            _update_records_with_releases(releases, call.release_index,
                                          records),
            St, <<>>)

\* set_records(self._update_reviews_with_sequence_number())
ReviewNumberPass ==
    /\ pc /= "run"
    /\ next_pass(pc, call.release_index) = "review_number"
    /\ Pass("review_number", _update_reviews_with_sequence_number(records),
            St, <<>>)

\* set_records(self._update_blueprints_with_mention_info())
MentionInfoPass ==
    /\ pc /= "run"
    /\ next_pass(pc, call.release_index) = "mention_info"
    /\ Pass("mention_info", _update_blueprints_with_mention_info(records),
            St, <<>>)

\* set_records(self._update_commits_with_merge_date())
MergeDatePass ==
    /\ pc /= "run"
    /\ next_pass(pc, call.release_index) = "merge_date"
    /\ Pass("merge_date", _update_commits_with_merge_date(releases, records),
            St, <<>>)

\* self._determine_core_contributors()
CoresPass ==
    /\ pc /= "run"
    /\ next_pass(pc, call.release_index) = "cores"
    /\ Pass("cores", <<>>, _determine_core_contributors(St, records, time),
            <<>>)

\* set_records(self._update_marks_with_disagreement())
DisagreementPass ==
    /\ pc /= "run"
    /\ next_pass(pc, call.release_index) = "disagreement"
    /\ \E r \in {_update_marks_with_disagreement(get_all_users(St), records)} :
           Pass("disagreement", r.out, St, r.closed)

NextPasses ==
    \/ StoreMark
    \/ UpdateCalled
    \/ ReleasesPass
    \/ ReviewNumberPass
    \/ MentionInfoPass
    \/ MergeDatePass
    \/ CoresPass
    \/ DisagreementPass

SpecPasses == InitPasses /\ [][NextPasses]_vars

(***************************************************************************)
(* SpecMentions: mails that mention blueprints and blueprints are ingested *)
(* and the mention pass of update runs over the stored records             *)
(***************************************************************************)
\* raw events ingested in SpecMentions
MaxMentions == 3

B1 == <<"b", "1">>

B2 == <<"b", "2">>

\* the blueprint_id lists of a mail: none, one blueprint, one blueprint
\* twice, a blueprint with one that is never stored
MentionLists == {<<>>, <<B1>>, <<B1, B1>>, <<B2, <<"b", "9">>>>}

\* the n-th raw event, a mail of the date that mentions the blueprints
MailOf(n, date, blueprint_id) ==
    [record_type |-> "email", message_id |-> <<"e">> \o str(n),
     author_name |-> "Ann", author_email |-> E1, date |-> date,
     subject |-> <<"x">>, blueprint_id |-> blueprint_id]

\* the blueprint id as fetched, completed or not
BlueprintOf(id, completed) ==
    [record_type |-> "bp", id |-> id, drafter |-> LdapX, owner |-> LdapY,
     assignee |-> IF completed THEN LdapX ELSE <<>>, date_created |-> 5,
     date_completed |-> IF completed THEN 8 ELSE 0, module |-> <<"n">>]

InitMentions ==
    /\ time = Now
    /\ modules = NoRegistry
    /\ users = EmptyMap
    /\ user_count = 0
    /\ records = <<>>
    /\ hash_order = [strings |-> <<B1, B2>> \o PipelineStrings(MaxMentions),
                     pairs |-> <<>>]
    /\ domains_index = PipelineIndex
    /\ releases = PipelineReleases
    /\ call = [op |-> "init", record |-> BlankRecord, after |-> "init"]
    /\ result = <<>>
    /\ ingested = 0
    /\ pc = "run"

StoreMail ==
    \E date \in {5, 7}, blueprint_id \in MentionLists :
        Ingest(MailOf(ingested + 1, date, blueprint_id), MaxMentions)

StoreBlueprint ==
    \E id \in {B1, B2}, completed \in BOOLEAN :
        Ingest(BlueprintOf(id, completed), MaxMentions)

\* self.runtime_storage_inst.set_records(
\*     self._update_blueprints_with_mention_info())
UpdateBlueprintsWithMentionInfo ==
    \E out \in {_update_blueprints_with_mention_info(records)} :
        /\ records' = set_records(records, out)
        /\ result' = out
        /\ call' = [op |-> "_update_blueprints_with_mention_info",
                    record |-> BlankRecord, after |-> call.op]
        /\ UNCHANGED <<domains_index, releases, modules, users, user_count,
                       hash_order, ingested, pc, time>>

NextMentions ==
    \/ StoreMail
    \/ StoreBlueprint
    \/ UpdateBlueprintsWithMentionInfo

SpecMentions == InitMentions /\ [][NextMentions]_vars

(***************************************************************************)
(* SpecReviewNumbers: reviews of two owners arrive in any order of their   *)
(* dates and the numbering pass of update runs over the stored records     *)
(***************************************************************************)
\* raw events ingested in SpecReviewNumbers
MaxReviews == 4

InitReviewNumbers == InitPipeline(MaxReviews)

\* the n-th raw event, a review of one of two owners created at some date
StoreReviewOfDate ==
    \E owner \in {Person(E2, LdapX), Person(E4, LdapY)},
       createdOn \in {3, 5, 7} :
        Ingest([ReviewOf(ingested + 1, owner, <<>>) EXCEPT
                    !.createdOn = createdOn],
               MaxReviews)

\* self.runtime_storage_inst.set_records(
\*     self._update_reviews_with_sequence_number())
UpdateReviewsWithSequenceNumber ==
    \E out \in {_update_reviews_with_sequence_number(records)} :
        /\ records' = set_records(records, out)
        /\ result' = out
        /\ call' = [op |-> "_update_reviews_with_sequence_number",
                    record |-> BlankRecord, after |-> call.op]
        /\ UNCHANGED <<domains_index, releases, modules, users, user_count,
                       hash_order, ingested, pc, time>>

NextReviewNumbers == StoreReviewOfDate \/ UpdateReviewsWithSequenceNumber

SpecReviewNumbers == InitReviewNumbers /\ [][NextReviewNumbers]_vars

(***************************************************************************)
(* SpecKeys: process on one review whose approvals may share a grant time  *)
(* or on one commit with coauthors                                         *)
(***************************************************************************)
\* two Code-Reviews of different persons granted in the same second, a
\* Workflow of that second and a later Code-Review
KeyApprovals ==
    {[type |-> "Code-Review", by |-> Person(E2, LdapX), value |-> "1",
      grantedOn |-> 7],
     [type |-> "Code-Review", by |-> Person(E4, LdapY), value |-> "-1",
      grantedOn |-> 7],
     [type |-> "Workflow", by |-> Person(E4, LdapY), value |-> "1",
      grantedOn |-> 7],
     [type |-> "Code-Review", by |-> Person(E2, LdapX), value |-> "2",
      grantedOn |-> 8]}

\* patch['approvals']: no approval or some, none of them twice
KeyApprovalLists ==
    {<<>>} \cup {q \in SeqsUpTo(KeyApprovals, MaxApprovals) :
                     \A i, j \in 1..Len(q) : i /= j => q[i] /= q[j]}

\* record['patchSets']: patch sets numbered from 1; an approval of one
\* patch set may stand in the next one as well, as copied votes do
KeyPatchSets ==
    {[i \in 1..Len(q) |->
         [number |-> DecimalDigits[i + 1], createdOn |-> 6,
          uploader |-> Person(E2, LdapX), has_approvals |-> q[i] /= <<>>,
          approvals |-> q[i]]] :
     q \in SeqsUpTo(KeyApprovalLists, MaxPatchSets)}

KeyReviews == {ReviewOf(1, Person(E2, LdapX), p) : p \in KeyPatchSets}

\* a commit without coauthors, with one or two, one of whom may be the
\* author
KeyCommits ==
    {[record_type |-> "commit", commit_id |-> <<"c", "1">>,
      author_name |-> "Ann", author_email |-> e, date |-> 5,
      lines_added |-> 1, lines_deleted |-> 2, module |-> <<"n">>,
      branch |-> "master", change_id |-> <<>>, coauthor |-> c] :
        e \in {E1, E2},
        c \in {<<>>} \cup
              SeqsUpTo({[author_name |-> "Bob", author_email |-> E4],
                        [author_name |-> "Ann", author_email |-> E2]}, 2)}

InitKeys ==
    /\ time = Now
    /\ domains_index = PipelineIndex
    /\ releases = PipelineReleases
    /\ hash_order = [strings |-> PipelineStrings(0), pairs |-> <<>>]
    /\ modules = NoRegistry
    /\ users = EmptyMap
    /\ user_count = 0
    /\ records = <<>>
    /\ call = [op |-> "init", record |-> BlankRecord, after |-> "init"]
    /\ result = <<>>
    /\ ingested = 0
    /\ pc = "call"

\* set_records(process([raw])); call.yielded is what process yields
ProcessKeyEvent(raw) ==
    /\ pc = "call"
    /\ \E o \in process(St, modules, PipelineRepos, releases, raw) :
           /\ users' = o.st.users
           /\ user_count' = o.st.user_count
           /\ modules' = o.modules
           /\ records' = set_records(records, o.out)
           /\ result' = o.out
           /\ call' = [op |-> "process", record |-> raw, after |-> call.op,
                       yielded |-> o.out]
           /\ ingested' = ingested + 1
           /\ pc' = "ret"
           /\ UNCHANGED <<domains_index, releases, hash_order, time>>

ProcessKeyReview == \E raw \in KeyReviews : ProcessKeyEvent(raw)

ProcessKeyCommit == \E raw \in KeyCommits : ProcessKeyEvent(raw)

NextKeys == ProcessKeyReview \/ ProcessKeyCommit

SpecKeys == InitKeys /\ [][NextKeys]_vars

(***************************************************************************)
(* SpecFixedPoint: commits and the review they belong to are ingested, all *)
(* of one person, and update runs from its first statement to its last     *)
(***************************************************************************)
\* raw events ingested in SpecFixedPoint
MaxFacts == 3

\* the review r1 as fetched: its status, its last update, and no patch set
\* or one with a +2 of the owner
FetchedReviews ==
    {[ReviewOf(1, Person(E2, LdapX), p) EXCEPT
          !.status = status, !.lastUpdated = lastUpdated] :
     status \in {"NEW", "MERGED"}, lastUpdated \in {5, WeekLater},
     p \in {<<>>,
            <<[number |-> "1", createdOn |-> 6,
               uploader |-> Person(E2, LdapX), has_approvals |-> TRUE,
               approvals |-> <<[type |-> "Code-Review",
                                by |-> Person(E2, LdapX), value |-> "2",
                                grantedOn |-> 10]>>]>>}}

InitFixedPoint ==
    /\ time = Quarter
    /\ modules = NoRegistry
    /\ users = EmptyMap
    /\ user_count = 0
    /\ records = <<>>
    /\ hash_order = [strings |-> PipelineStrings(0),
                     pairs |-> <<<<<<"n">>, "master">>>>]
    /\ domains_index = PipelineIndex
    /\ releases = PipelineReleases
    /\ call = [op |-> "init", record |-> BlankRecord, after |-> "init"]
    /\ result = <<>>
    /\ ingested = 0
    /\ pc = "run"

StoreFetchedReview == \E raw \in FetchedReviews : Ingest(raw, MaxFacts)

StoreCommitOfReview ==
    \E change_id \in {<<>>, <<<<"r", "1">>>>} :
        Ingest(CommitOf(ingested + 1, change_id), MaxFacts)

\* update(release_index) is called, some time after the last call; result
\* holds what each of its statements yielded
Update ==
    /\ ingested > 0
    /\ \E release_index \in {EmptyMap, ReleaseIndex}, now \in {time, Later} :
           /\ now >= time
           /\ \E u \in {update(St, records, releases, release_index, now)} :
                  /\ users' = u.st.users
                  /\ user_count' = u.st.user_count
                  /\ records' = u.records
                  /\ result' = u.out
                  /\ call' = [op |-> "update",
                              release_index |-> release_index,
                              after |-> call.op]
                  /\ time' = now
                  /\ UNCHANGED <<domains_index, releases, modules,
                                 hash_order, ingested, pc>>

NextFixedPoint == StoreFetchedReview \/ StoreCommitOfReview \/ Update

SpecFixedPoint == InitFixedPoint /\ [][NextFixedPoint]_vars

(***************************************************************************)
(* Claims                                                                  *)
(***************************************************************************)

\* C7: for a non-empty interval list in ascending end_date order (end_date 0
\* last) _find_company returns the company of the first interval whose
\* end_date is strictly greater than the date, and the last interval's
\* company when there is none; for [{A,100},{B,0}] that is A for date 50 and
\* B for dates 100 and 150.
C7_FindCompanyFirstStrictlyGreater ==
    (pc = "ret" /\ call.op = "_find_company") =>
        LET c == call.companies
            later == {i \in 1..Len(c) : c[i].end_date > call.date}
        IN  /\ result = IF later /= {}
                        THEN c[Min(later)].company_name
                        ELSE c[Len(c)].company_name
            /\ c = <<[company_name |-> "A", end_date |-> 100],
                     [company_name |-> "B", end_date |-> 0]>>
                 => result = IF call.date = 50 THEN "A"
                             ELSE IF call.date \in {100, 150} THEN "B"
                             ELSE result

\* C7 witness: the date equal to the first interval's end_date gave B
C7_Witness ==
    /\ pc = "ret"
    /\ call.op = "_find_company"
    /\ call.companies = <<[company_name |-> "A", end_date |-> 100],
                          [company_name |-> "B", end_date |-> 0]>>
    /\ call.date = 100
    /\ result = "B"

\* the suffixes of the domain that start at a label boundary, hold at least
\* two labels and are keys of the index
C8_MatchingSuffixes(index, email) ==
    LET at == FirstIndex(email, "@")
        domain == IF at = 0 THEN <<>> ELSE SubSeq(email, at + 1, Len(email))
    IN  {s \in {SubSeq(domain, k, Len(domain)) :
                    k \in {j \in 1..Len(domain) :
                               j = 1 \/ domain[j - 1] = "."}} :
            /\ \E i \in 1..Len(s) : s[i] = "."
            /\ s \in DOMAIN index}

\* C8: _get_company_by_email returns the company mapped to the longest
\* suffix of the email's domain that consists of at least 2 dot-separated
\* labels and is a key of the index, and null when the email is empty, has
\* no domain part or no such suffix is a key (a single label never matches).
C8_LongestSuffixOfTwoLabels ==
    (pc = "ret" /\ call.op = "_get_company_by_email") =>
        LET S == C8_MatchingSuffixes(domains_index, call.email)
        IN  result = IF S = {}
                     THEN Null
                     ELSE domains_index[CHOOSE s \in S :
                                            \A t \in S : Len(t) <= Len(s)]

\* C8 witness: a.a and a.a.a are both keys and the longer one won, with the
\* single label a a key too
C8_Witness ==
    /\ pc = "ret"
    /\ call.op = "_get_company_by_email"
    /\ call.email = <<"a", "@", "a", ".", "a", ".", "a">>
    /\ {<<"a">>, <<"a", ".", "a">>, <<"a", ".", "a", ".", "a">>}
           \subseteq DOMAIN domains_index
    /\ result = "Y"

\* C9: for a non-empty release list in ascending end_date order
\* _get_release returns the name of a release of the list: the first
\* release whose end_date is greater than the timestamp, or the last
\* release when the timestamp is at or beyond every end_date.
C9_ReleaseAtInsertionPointOrLast ==
    (pc = "ret" /\ call.op = "_get_release") =>
        LET later == {i \in 1..Len(releases) :
                          releases[i].end_date > call.timestamp}
        IN  /\ \E i \in 1..Len(releases) : result = releases[i].release_name
            /\ result = IF later /= {}
                        THEN releases[Min(later)].release_name
                        ELSE releases[Len(releases)].release_name

\* C9 witness: a timestamp beyond every end_date was clamped to the last
\* release
C9_Witness ==
    /\ pc = "ret"
    /\ call.op = "_get_release"
    /\ Len(releases) >= 2
    /\ releases[1].release_name /= releases[Len(releases)].release_name
    /\ call.timestamp > releases[Len(releases)].end_date
    /\ result = releases[Len(releases)].release_name

\* C10: for every repository list (modules with optional aliases, in any
\* order) the registry built by _get_modules never contains two distinct
\* names where one is a substring of the other.
C10_NoNameContainsAnother ==
    (pc = "ret" /\ call.op = "_get_modules") =>
        \A m1, m2 \in modules.modules : m1 /= m2 => ~Contains(m1, m2)

\* C4 as stated: when the lookups by email and by directory id return two
\* distinct persisted users, the user update_user returns has core and
\* emails equal to the unions, user_id equal to the event's directory id,
\* seq, user_name and companies of the email-keyed document (else the
\* directory-id-keyed one, else the fresh candidate), and the
\* directory-id-keyed original document is gone.
C4_MergeAsStated ==
    [][(/\ call'.op = "update_user"
        /\ load_user(users, call'.email).seq /= 0
        /\ load_user(users, call'.ldap_id).seq /= 0
        /\ load_user(users, call'.email).seq
               /= load_user(users, call'.ldap_id).seq)
       => LET user_e == load_user(users, call'.email)
              user_l == load_user(users, call'.ldap_id)
          IN  /\ Range(result'.core) = Range(user_e.core) \cup Range(user_l.core)
              /\ Range(result'.emails) = Range(user_e.emails)
                     \cup Range(user_l.emails) \cup {call'.email}
              /\ result'.user_id = call'.ldap_id
              /\ result'.seq = user_e.seq
              /\ result'.user_name =
                     OrStr(user_e.user_name,
                           OrStr(user_l.user_name, call'.user_name))
              /\ result'.companies = user_e.companies
              /\ \A k \in DOMAIN users' : users'[k].seq /= user_l.seq]_vars

\* the company of the first email of the list that resolves, Null if none
C4_FirstResolved(emails) ==
    LET hits == {i \in 1..Len(emails) :
                     Truthy(_get_company_by_email(domains_index, emails[i]))}
    IN  IF hits = {} THEN Null
        ELSE _get_company_by_email(domains_index, emails[Min(hits)])

\* C4 amended: as C4, except that user_id is the directory id the email-keyed
\* document already carries when it carries one (the event's directory id
\* otherwise), and companies are those of the email-keyed document after the
\* affiliation refresh: a single '*independent' interval takes the company
\* of the first merged email that resolves through the domain index.
C4_MergeOfTwoPersistedUsers ==
    [][(/\ call'.op = "update_user"
        /\ load_user(users, call'.email).seq /= 0
        /\ load_user(users, call'.ldap_id).seq /= 0
        /\ load_user(users, call'.email).seq
               /= load_user(users, call'.ldap_id).seq)
       => LET user_e == load_user(users, call'.email)
              user_l == load_user(users, call'.ldap_id)
              company == C4_FirstResolved(result'.emails)
          IN  /\ Range(result'.core) = Range(user_e.core) \cup Range(user_l.core)
              /\ Range(result'.emails) = Range(user_e.emails)
                     \cup Range(user_l.emails) \cup {call'.email}
              /\ result'.user_id = OrSeq(user_e.ldap_id, call'.ldap_id)
              /\ result'.seq = user_e.seq
              /\ result'.user_name =
                     OrStr(user_e.user_name,
                           OrStr(user_l.user_name, call'.user_name))
              /\ result'.companies =
                     IF /\ Len(user_e.companies) = 1
                        /\ user_e.companies[1].company_name = "*independent"
                        /\ company /= Null
                     THEN <<[user_e.companies[1] EXCEPT
                                 !.company_name = company]>>
                     ELSE user_e.companies
              /\ \A k \in DOMAIN users' : users'[k].seq /= user_l.seq]_vars

\* C4 witness: two persisted users with a core pair each were merged, the
\* directory-id-keyed one is gone and the merged user carries both pairs
C4_Witness ==
    /\ call.op = "update_user"
    /\ call.seq_e /= 0
    /\ call.seq_l /= 0
    /\ call.seq_e /= call.seq_l
    /\ result.seq = call.seq_e
    /\ Range(result.core) = CorePairs
    /\ result.user_id = call.ldap_id
    /\ SeqKey(call.seq_l) \notin DOMAIN users

\* C5 as stated: after update_user for an event with a non-empty email and a
\* non-empty directory id, the lookups by that email and by that directory
\* id both return the persisted user that was returned, so that a repeated
\* call takes the no-merge path.
C5_ConvergenceAsStated ==
    (call.op = "update_user" /\ call.email /= <<>> /\ call.ldap_id /= <<>>)
        => /\ result.seq /= 0
           /\ load_user(users, call.email) = result
           /\ load_user(users, call.ldap_id) = result

\* C5 amended: the lookup by the email returns the persisted user that was
\* returned; the lookup by the directory id returns the same user when the
\* user found by the email before the call carried no directory id or the
\* event's; when it carried another directory id, that id stays the user_id
\* and the lookup by the event's directory id returns no user.
C5_ConvergenceUnlessOtherDirectoryId ==
    [][(call'.op = "update_user" /\ call'.email /= <<>>
            /\ call'.ldap_id /= <<>>)
       => LET user_e == load_user(users, call'.email)
          IN  /\ result'.seq /= 0
              /\ load_user(users', call'.email) = result'
              /\ IF user_e.ldap_id \in {<<>>, call'.ldap_id}
                 THEN load_user(users', call'.ldap_id) = result'
                 ELSE /\ load_user(users', call'.ldap_id) = NoUser
                      /\ result'.user_id = user_e.ldap_id]_vars

\* C5 witness: two distinct users were found by the two keys, and both keys
\* now lead to the one user returned
C5_Witness ==
    /\ call.op = "update_user"
    /\ call.seq_e /= 0
    /\ call.seq_l /= 0
    /\ call.seq_e /= call.seq_l
    /\ load_user(users, call.email) = result
    /\ load_user(users, call.ldap_id) = result

\* C6: when the lookups by email and by directory id return users with the
\* same non-empty seq, update_user returns the email-keyed user as it is and
\* leaves the storage unchanged (no store, no delete, no affiliation
\* refresh).
C6_SameSeqLeavesStorageUnchanged ==
    [][(/\ call'.op = "update_user"
        /\ load_user(users, call'.email).seq /= 0
        /\ load_user(users, call'.email).seq
               = load_user(users, call'.ldap_id).seq)
       => /\ users' = users
          /\ user_count' = user_count
          /\ result' = load_user(users, call'.email)]_vars

\* C6 witness: both lookups returned the same persisted user, whose name
\* and core the event did not touch
C6_Witness ==
    /\ call.op = "update_user"
    /\ call.seq_e /= 0
    /\ call.seq_e = call.seq_l
    /\ result = load_user(users, call.email)
    /\ result.user_name /= call.user_name
    /\ ~result.has_core

\* C2: process never yields a record whose company_name is "*robots",
\* whatever the type of the raw event and whatever the store holds, whether
\* the robot comes from the user's company intervals, from the domain index
\* or from a member's declared company.
C2_ProcessYieldsNoRobots ==
    call.op = "process" =>
        \A i \in 1..Len(result) : result[i].company_name /= "*robots"

\* C2 witness: a commit with a robot coauthor was processed, the robot was
\* stored as a user and only the author's record was yielded
C2_Witness ==
    /\ call.op = "process"
    /\ call.record.record_type = "commit"
    /\ Len(call.record.coauthor) = 1
    /\ load_user(users, E3).companies
           = <<[company_name |-> "*robots", end_date |-> 0]>>
    /\ Len(result) = 1
    /\ result[1].author_email /= E3

\* C3: no stored record has company_name "*robots".
C3_NoRobotsRecordStored ==
    \A i \in 1..Len(records) : records[i].company_name /= "*robots"

\* C1: a user-info refresh pass that runs right after a user-info refresh
\* pass whose records were stored emits no record.
C1_SecondRefreshEmitsNothing ==
    (/\ call.op = "_update_records_with_user_info"
     /\ call.after = "_update_records_with_user_info")
        => result = <<>>

\* the names a repository list offers to the registry: the lowercased module
\* names and the aliases
C11_OfferedNames(repos) ==
    UNION {{lower(repos[i].module)} \cup Range(repos[i].aliases) :
               i \in 1..Len(repos)}

\* C11: the registry keeps only maximal names: a name is in the registry
\* built from a repository list exactly when no other name of the list
\* contains it, so that "b" and "ab" (in either order) yield {"ab"}.
C11_OnlyMaximalNamesRemain ==
    (pc = "ret" /\ call.op = "_get_modules") =>
        modules.modules =
            {n \in C11_OfferedNames(call.repos) :
                 \A m \in C11_OfferedNames(call.repos) :
                     m /= n => ~Contains(m, n)}

\* the positions of the emails of a user that the domain index resolves
C16_Resolving(user) ==
    {i \in 1..Len(user.emails) :
         Truthy(_get_company_by_email(domains_index, user.emails[i]))}

\* C16: _update_user_affiliation changes a user only when the user has one
\* company interval, that interval names "*independent" and an email of the
\* user resolves through the domain index; the interval then takes the
\* company of the first such email.  In every other case the user is left
\* as it was; the end_date and the number of intervals never change.
C16_AffiliationOnlyForSingleIndependent ==
    (pc = "ret" /\ call.op = "_update_user_affiliation") =>
        LET user == call.user
            hits == C16_Resolving(user)
        IN  /\ Len(result.companies) = Len(user.companies)
            /\ \A i \in 1..Len(user.companies) :
                   result.companies[i].end_date = user.companies[i].end_date
            /\ IF /\ Len(user.companies) = 1
                  /\ user.companies[1].company_name = "*independent"
                  /\ hits /= {}
               THEN result =
                        [user EXCEPT !.companies[1].company_name =
                             _get_company_by_email(domains_index,
                                                   user.emails[Min(hits)])]
               ELSE result = user

\* C16 witness: a single '*independent' interval took the company of the
\* first of two emails that resolve to different companies
C16_Witness ==
    /\ pc = "ret"
    /\ call.op = "_update_user_affiliation"
    /\ call.user.emails = <<E1, E3, E2>>
    /\ call.user.companies
           = <<[company_name |-> "*independent", end_date |-> 0]>>
    /\ result.companies = <<[company_name |-> "*robots", end_date |-> 0]>>

\* C15: every record process yields, of every record type, has a non-empty
\* primary_key, record_type, date, user_id and company_name; the drafted and
\* completed blueprint records carry the user_id of the drafter, owner or
\* assignee.
C15_YieldedRecordsAreComplete ==
    call.op = "process" =>
        \A i \in 1..Len(result) :
            /\ result[i].primary_key /= <<>>
            /\ result[i].record_type /= Null
            /\ result[i].date /= 0
            /\ result[i].user_id /= <<>>
            /\ Truthy(result[i].company_name)

\* C14: a review event whose owner lacks an email or a username yields no
\* record, whatever its patch sets hold, and leaves the users and the
\* records of the storage as they were.
C14_OwnerWithoutIdentityYieldsNothing ==
    [][(/\ call'.op = "process"
        /\ call'.record.record_type = "review"
        /\ ~HasIdentity(call'.record.owner))
       => /\ call'.yielded = <<>>
          /\ result' = <<>>
          /\ users' = users
          /\ user_count' = user_count
          /\ records' = records]_vars

\* C14 witness: a review of an owner without identity, whose second patch
\* set has an uploader and a Code-Review approver with email and username,
\* was processed over a storage that holds a user, and nothing was yielded
C14_Witness ==
    /\ call.op = "process"
    /\ ~HasIdentity(call.record.owner)
    /\ Len(call.record.patchSets) = 2
    /\ HasIdentity(call.record.patchSets[2].uploader)
    /\ \E i \in 1..Len(call.record.patchSets[2].approvals) :
           /\ call.record.patchSets[2].approvals[i].type = "Code-Review"
           /\ HasIdentity(call.record.patchSets[2].approvals[i].by)
    /\ user_count = 1
    /\ result = <<>>
    /\ records = <<>>

RECURSIVE C17_Flatten(_)
C17_Flatten(qs) ==
    IF qs = <<>> THEN <<>> ELSE Head(qs) \o C17_Flatten(Tail(qs))

\* [primary_key, patch, value] of the approvals of a review event that are
\* Code-Review or Workflow and whose approver has email and username, in
\* list order; with valid_uploader, only those of the patch sets whose
\* uploader has email and username
C17_MarkedApprovals(record, valid_uploader) ==
    LET ps == record.patchSets
        marked(a) == /\ a.type \in {"Code-Review", "Workflow"}
                     /\ HasIdentity(a.by)
        of_patch(p) ==
            IF \/ ~p.has_approvals
               \/ (valid_uploader /\ ~HasIdentity(p.uploader))
            THEN <<>>
            ELSE LET as == SelectSeq(p.approvals, marked)
                 IN  [j \in 1..Len(as) |->
                         [primary_key |-> record.id \o str(as[j].grantedOn)
                                              \o <<as[j].type>>,
                          patch |-> int(p.number),
                          value |-> int(as[j].value)]]
    IN  C17_Flatten([i \in 1..Len(ps) |-> of_patch(ps[i])])

\* [primary_key, patch, value] of the mark records among the records yielded
C17_MarksOf(out) ==
    LET marks == SelectSeq(out, LAMBDA r : r.record_type = "mark")
    IN  [j \in 1..Len(marks) |->
            [primary_key |-> marks[j].primary_key, patch |-> marks[j].patch,
             value |-> marks[j].value]]

\* C17 as stated: for a review event with a valid owner, one mark record is
\* yielded for each Code-Review or Workflow approval of an approver with
\* email and username, in any patch set, also in a patch set whose uploader
\* has no email or username; no other mark record is yielded.
C17_OneMarkPerApprovalAsStated ==
    (call.op = "process" /\ HasIdentity(call.record.owner)) =>
        C17_MarksOf(call.yielded) = C17_MarkedApprovals(call.record, FALSE)

\* C17 amended: one mark record is yielded for each Code-Review or Workflow
\* approval of an approver with email and username in the patch sets whose
\* uploader has email and username; the approvals of a patch set whose
\* uploader lacks either yield no mark record.
C17_OneMarkPerApprovalOfUploadedPatch ==
    (call.op = "process" /\ HasIdentity(call.record.owner)) =>
        C17_MarksOf(call.yielded) = C17_MarkedApprovals(call.record, TRUE)

\* C17 witness: the first patch set has an uploader without email and a
\* Workflow approval that gave no mark, the second an uploader with email
\* and two approvals that gave a mark each
C17_Witness ==
    /\ call.op = "process"
    /\ HasIdentity(call.record.owner)
    /\ Len(call.record.patchSets) = 2
    /\ ~HasIdentity(call.record.patchSets[1].uploader)
    /\ call.record.patchSets[1].has_approvals
    /\ HasIdentity(call.record.patchSets[2].uploader)
    /\ Len(C17_MarksOf(call.yielded)) = 2
    /\ \A j \in 1..2 : C17_MarksOf(call.yielded)[j].patch = 2

\* C18: the review record has value equal to the least approval value of
\* the last patch set (0 with no patch set or no approvals) and updated_on
\* equal to the greatest grantedOn of the last patch set's approvals, to
\* the last patch set's createdOn when it has no approvals, and to the
\* review's creation date when there is no patch set, for every order of
\* the approvals.
C18_ReviewValueAndUpdatedOn ==
    (call.op = "process" /\ HasIdentity(call.record.owner)) =>
        LET ps == call.record.patchSets
            last == ps[Len(ps)]
            review == call.yielded[1]
        IN  /\ review.record_type = "review"
            /\ review.value =
                   IF ps /= <<>> /\ last.has_approvals
                   THEN Min({int(last.approvals[i].value) :
                                 i \in 1..Len(last.approvals)})
                   ELSE 0
            /\ review.updated_on =
                   IF ps = <<>> THEN call.record.createdOn
                   ELSE IF last.has_approvals
                        THEN Max({last.approvals[i].grantedOn :
                                      i \in 1..Len(last.approvals)})
                        ELSE last.createdOn

\* the stored MERGED reviews a commit record's only change id names
C19_MergedReviewsOf(record) ==
    {i \in 1..Len(records) :
         /\ record.record_type = "commit"
         /\ Len(record.change_id) = 1
         /\ records[i].record_type = "review"
         /\ records[i].status = "MERGED"
         /\ records[i].id = record.change_id[1]}

\* C19: in the merge-date pass every commit record with exactly one change
\* id, that of a stored MERGED review whose lastUpdated differs from the
\* commit's date, is emitted with the date set to that time and with week
\* and release recomputed from the new date, also when it carried a release
\* already; every other record is neither emitted nor changed.
C19_BackfillRecomputesWeekAndRelease ==
    [][call'.op = "_update_commits_with_merge_date" =>
          \A i \in 1..Len(records) :
              IF \E j \in C19_MergedReviewsOf(records[i]) :
                     records[j].lastUpdated /= records[i].date
              THEN \E j \in C19_MergedReviewsOf(records[i]) :
                      /\ records'[i] =
                             [records[i] EXCEPT
                                  !.date = records[j].lastUpdated,
                                  !.week = timestamp_to_week(
                                               records[j].lastUpdated),
                                  !.release = _get_release(
                                                  releases,
                                                  records[j].lastUpdated)]
                      /\ \E k \in 1..Len(result') : result'[k] = records'[i]
              ELSE /\ records'[i] = records[i]
                   /\ \A k \in 1..Len(result') :
                          result'[k].primary_key /= records[i].primary_key]_vars

\* the same with the release left as the record carried it: what the code
\* does for a record that has a release
C19_BackfillKeepsRelease ==
    [][call'.op = "_update_commits_with_merge_date" =>
          \A i \in 1..Len(records) :
              IF \E j \in C19_MergedReviewsOf(records[i]) :
                     records[j].lastUpdated /= records[i].date
              THEN \E j \in C19_MergedReviewsOf(records[i]) :
                      /\ records'[i] =
                             [records[i] EXCEPT
                                  !.date = records[j].lastUpdated,
                                  !.week = timestamp_to_week(
                                               records[j].lastUpdated)]
                      /\ \E k \in 1..Len(result') : result'[k] = records'[i]
              ELSE /\ records'[i] = records[i]
                   /\ \A k \in 1..Len(result') :
                          result'[k].primary_key /= records[i].primary_key]_vars

\* C20: after the disagreement pass every list of marks that was handed to
\* _close_patch holds marks of one review and one patch number, and that
\* number is not below the patch number of any mark of the review in the
\* lists closed up to then, whatever the arrival order of the marks.
C20_ClosedGroupsHoldOnePatch ==
    (pc = "run" /\ call.op = "update") =>
        \A k \in 1..Len(call.closed) :
            \A i, j \in 1..Len(call.closed[k]) :
                /\ call.closed[k][i].review_id = call.closed[k][j].review_id
                /\ call.closed[k][i].patch = call.closed[k][j].patch
                /\ \A h \in 1..k :
                       \A l \in 1..Len(call.closed[h]) :
                           call.closed[h][l].review_id
                               = call.closed[k][i].review_id
                           => call.closed[h][l].patch
                                  <= call.closed[k][i].patch

\* the stored record of a mark
C12_Stored(mark) ==
    records[CHOOSE i \in 1..Len(records) :
                records[i].primary_key = mark.primary_key]

\* the marks of a closed list that a core engineer of their module and
\* branch cast
C12_CoreMarks(marks) ==
    {i \in 1..Len(marks) :
         <<marks[i].module, marks[i].branch, marks[i].user_id>> \in call.cores}

\* C12: once the marks the disagreement pass yielded are stored, in every
\* closed list of at least 2 marks a mark carries disagreement = true
\* exactly when it is dated before the most recent mark of a core engineer
\* (the baseline) and its value has the sign opposite to the baseline's;
\* the baseline, later marks, zero and same-sign marks, and all marks of a
\* list without a core mark carry disagreement false or unset.
C12_DisagreementExactlyAgainstBaseline ==
    (pc = "run" /\ call.op = "update") =>
        \A k \in 1..Len(call.closed) :
            Len(call.closed[k]) >= 2 =>
                LET marks == call.closed[k]
                    core == C12_CoreMarks(marks)
                    baseline == CHOOSE b \in core :
                                    \A c \in core :
                                        marks[c].date <= marks[b].date
                IN  \A i \in 1..Len(marks) :
                        (/\ C12_Stored(marks[i]).has_disagreement
                         /\ C12_Stored(marks[i]).disagreement)
                            = (/\ core /= {}
                               /\ marks[i].date < marks[baseline].date
                               /\ \/ /\ marks[baseline].value < 0
                                     /\ marks[i].value > 0
                                  \/ /\ marks[baseline].value > 0
                                     /\ marks[i].value < 0)

\* the same with the baseline taken from the most recent core mark of a
\* value other than 0
C12_AgainstNonZeroBaseline ==
    (pc = "run" /\ call.op = "update") =>
        \A k \in 1..Len(call.closed) :
            Len(call.closed[k]) >= 2 =>
                LET marks == call.closed[k]
                    core == {c \in C12_CoreMarks(marks) : marks[c].value /= 0}
                    baseline == CHOOSE b \in core :
                                    \A c \in core :
                                        marks[c].date <= marks[b].date
                IN  \A i \in 1..Len(marks) :
                        (/\ C12_Stored(marks[i]).has_disagreement
                         /\ C12_Stored(marks[i]).disagreement)
                            = (/\ core /= {}
                               /\ marks[i].date < marks[baseline].date
                               /\ \/ /\ marks[baseline].value < 0
                                     /\ marks[i].value > 0
                                  \/ /\ marks[baseline].value > 0
                                     /\ marks[i].value < 0)

\* the statements of update(release_index), in the order of the source
C13_Statements(release_index) ==
    <<"user_info">>
        \o (IF release_index /= EmptyMap THEN <<"releases">> ELSE <<>>)
        \o <<"review_number", "mention_info", "merge_date", "cores",
             "disagreement">>

\* the core triples of the stored marks at the time of the invocation
C13_CoresOfThisInvocation ==
    UNION {{<<pair[1], pair[2], records[i].user_id>> :
                pair \in core_engineers(records, time, records[i].user_id)} :
           i \in 1..Len(records)}

\* C13: the statements an invocation of update has run are an initial part
\* of: user info, releases (only with a non-empty release index), review
\* numbers, mention info, merge dates, cores, disagreement; the invocation
\* ends exactly when all have run; and the cores the disagreement pass read
\* from the users are those the core pass of this invocation computed.
C13_PassesRunInFixedOrder ==
    call.op = "update" =>
        /\ \E n \in 1..Len(C13_Statements(call.release_index)) :
               /\ call.passes
                      = SubSeq(C13_Statements(call.release_index), 1, n)
               /\ (pc = "run")
                      = (n = Len(C13_Statements(call.release_index)))
        /\ call.passes[Len(call.passes)] = "disagreement"
               => call.cores = C13_CoresOfThisInvocation

\* an invocation with a release index has run all seven statements, the
\* last of them with a core set that the invocation itself changed
C13_Witness ==
    /\ pc = "run"
    /\ call.op = "update"
    /\ call.release_index /= EmptyMap
    /\ Len(call.passes) = 7
    /\ time = Later
    /\ call.cores /= {}
    /\ \E i \in 1..Len(records) :
           /\ records[i].record_type = "mark"
           /\ records[i].value = 2
           /\ <<records[i].module, records[i].branch, records[i].user_id>>
                  \notin call.cores

\* the core set a user document holds: none without the key
C21_CoreOf(user) == IF user.has_core THEN Range(user.core) ELSE {}

\* after the core pass every stored user holds exactly the pairs of the
\* marks of value +2 or -2 of the last quarter that carry its user_id
C21_CoresAreThoseOfRecentMarks ==
    \A k \in DOMAIN users' :
        /\ users'[k].has_core
        /\ Range(users'[k].core)
               = core_engineers(records, time, users'[k].user_id)
        /\ Len(users'[k].core) = Cardinality(Range(users'[k].core))

\* C21 as stated: the core pass leaves every stored user with exactly the
\* pairs of its recent +2/-2 marks, and it changes a user document only
\* when the user's core set differs from the one held before the pass.
C21_WritesOnlyChangedCoreSets ==
    [][pc' = "cores" =>
          /\ C21_CoresAreThoseOfRecentMarks
          /\ \A k \in DOMAIN users :
                 users'[k] /= users[k]
                     => C21_CoreOf(users'[k]) /= C21_CoreOf(users[k])]_vars

\* C21: the core pass leaves every stored user with exactly the pairs of
\* its recent +2/-2 marks, and it changes a user document only when the
\* core set differs from the one held before the pass or the document had
\* no core list yet.
C21_WritesChangedOrMissingCoreSets ==
    [][pc' = "cores" =>
          /\ C21_CoresAreThoseOfRecentMarks
          /\ \A k \in DOMAIN users :
                 users'[k] /= users[k]
                     => \/ ~users[k].has_core
                        \/ C21_CoreOf(users'[k]) /= C21_CoreOf(users[k])]_vars

\* the core pass has run after the clock moved: one user's +2 no longer
\* counts and its core list is empty, another user is core
C21_Witness ==
    /\ pc = "cores"
    /\ time = Later
    /\ \E k \in DOMAIN users :
           /\ users[k].has_core
           /\ users[k].core = <<>>
           /\ \E i \in 1..Len(records) :
                  /\ records[i].record_type = "mark"
                  /\ records[i].value = 2
                  /\ records[i].user_id = users[k].user_id
    /\ \E k \in DOMAIN users : users[k].has_core /\ users[k].core /= <<>>

\* the (record, position) places of the stored records where the
\* blueprint id stands in a blueprint_id list
C22_Mentions(id) ==
    {p \in UNION {{<<i, k>> : k \in 1..Len(records[i].blueprint_id)} :
                  i \in 1..Len(records)} :
         records[p[1]].blueprint_id[p[2]] = id}

C22_Count(id) == Cardinality(C22_Mentions(id))

C22_Date(id) ==
    IF C22_Mentions(id) = {} THEN 0
    ELSE Max({records[p[1]].date : p \in C22_Mentions(id)})

\* C22: the mention pass yields a bpd or bpc record exactly when it has no
\* stored mention_count and mention_date or one of them differs from the
\* number of blueprint_id entries equal to its id over all stored records
\* and the greatest date of a record holding one (0 and 0 when there is
\* none), and the record yielded and stored carries that pair.
C22_BlueprintsTakeMentionCountAndDate ==
    [][call'.op = "_update_blueprints_with_mention_info" =>
          \A i \in 1..Len(records) :
              records[i].record_type \in {"bpd", "bpc"} =>
                  /\ (\E k \in 1..Len(result') :
                          result'[k].primary_key = records[i].primary_key)
                         = (\/ ~records[i].has_mention
                            \/ records[i].mention_count
                                   /= C22_Count(records[i].id)
                            \/ records[i].mention_date
                                   /= C22_Date(records[i].id))
                  /\ \A k \in 1..Len(result') :
                         result'[k].primary_key = records[i].primary_key
                             => /\ result'[k].has_mention
                                /\ result'[k].mention_count
                                       = C22_Count(records[i].id)
                                /\ result'[k].mention_date
                                       = C22_Date(records[i].id)
                                /\ records'[i] = result'[k]]_vars

\* a completed blueprint that two mails mention, one of them twice and the
\* newer one stored first, is yielded with the count 3 and the date 7
C22_Witness ==
    /\ call.op = "_update_blueprints_with_mention_info"
    /\ \E k \in 1..Len(result) :
           /\ result[k].record_type = "bpc"
           /\ result[k].mention_count = 3
           /\ result[k].mention_date = 7
    /\ \E i, j \in 1..Len(records) :
           /\ i < j
           /\ records[i].record_type = "email"
           /\ records[j].record_type = "email"
           /\ records[i].date = 7
           /\ records[j].date = 5
           /\ records[i].blueprint_id /= <<>>
           /\ records[j].blueprint_id /= <<>>

\* the stored review records of a directory id after the pass
C23_ReviewsOf(ldap_id) ==
    {i \in 1..Len(records') : /\ records'[i].record_type = "review"
                              /\ records'[i].ldap_id = ldap_id}

\* C23: once the records the numbering pass yielded are stored, the review
\* numbers of the n reviews of every directory id are exactly 1..n, each
\* once, a review of an earlier date has the smaller number, and the pass
\* yielded exactly the review records whose stored number was another one.
C23_ReviewNumbersAreOneToN ==
    [][call'.op = "_update_reviews_with_sequence_number" =>
          /\ \A i \in 1..Len(records') :
                 records'[i].record_type = "review" =>
                     LET mine == C23_ReviewsOf(records'[i].ldap_id)
                     IN  /\ {records'[j].review_number : j \in mine}
                                = 1..Cardinality(mine)
                         /\ \A j \in mine :
                                /\ (j /= i => records'[j].review_number
                                                  /= records'[i].review_number)
                                /\ (records'[j].date < records'[i].date
                                        => records'[j].review_number
                                               < records'[i].review_number)
          /\ Len(records') = Len(records)
          /\ \A i \in 1..Len(records) :
                 (\E k \in 1..Len(result') :
                      result'[k].primary_key = records[i].primary_key)
                     = (/\ records[i].record_type = "review"
                        /\ records[i].review_number
                               /= records'[i].review_number)]_vars

\* a directory id has three reviews, the oldest stored last, and the pass
\* has yielded the three with their numbers in the order of the dates
C23_Witness ==
    /\ call.op = "_update_reviews_with_sequence_number"
    /\ call.after = "process"
    /\ \E i, j, k \in 1..Len(records) :
           /\ i < j /\ j < k
           /\ records[i].ldap_id = records[k].ldap_id
           /\ records[j].ldap_id = records[k].ldap_id
           /\ records[k].review_number = 1
           /\ records[i].review_number = 2
           /\ records[j].review_number = 3
           /\ records[k].date < records[i].date
           /\ records[i].date < records[j].date
           /\ Len(result) = 3

\* C24: the records process yields for one raw event have pairwise
\* distinct primary keys, among them the mark records of two different
\* approvals of one review.
C24_YieldedKeysAreDistinct ==
    (pc = "ret" /\ call.op = "process") =>
        \A i, j \in 1..Len(call.yielded) :
            i /= j => call.yielded[i].primary_key
                          /= call.yielded[j].primary_key

\* an invocation of update directly after one of the same release index,
\* at the same time
C25_SecondRun(release_index) ==
    /\ call.op = "update"
    /\ call'.op = "update"
    /\ call.release_index = release_index
    /\ call'.release_index = release_index
    /\ time' = time

\* no statement of the invocation yielded a record and no user changed
C25_NothingWritten ==
    /\ records' = records
    /\ users' = users
    /\ \A k \in 1..Len(result') : result'[k] = <<>>

\* C25: an invocation of update that follows a complete one of the same
\* release index, at the same time and with nothing ingested in between,
\* writes no record and no user in any of its statements.
C25_SecondUpdateWritesNothing ==
    [][(\E release_index \in {EmptyMap, ReleaseIndex} :
            C25_SecondRun(release_index)) => C25_NothingWritten]_vars

\* the same for invocations without a release index only
C25_SecondUpdateWithoutIndexWritesNothing ==
    [][C25_SecondRun(EmptyMap) => C25_NothingWritten]_vars

====
